---- MODULE Spec2Model ----
(***************************************************************************)
(* A state-machine model of the go-fetcher crawl engine:                   *)
(*   - lib/handlers.go   HandleFetch (request admission, semaphore)        *)
(*   - lib/crawler.go    StartCrawl, CrawlOneSeed, enqueue, seed workers   *)
(*   - lib/event_hub.go  Subscribe, Unsubscribe, Publish                   *)
(*   - lib/handlers.go   streamSSE (the subscriber's read loop)            *)
(*   - lib/analyzer_client.go  SendBatch, sendBatchOnce                    *)
(*   - lib (dead letter queue)  Enqueue, Dequeue, Length, RetryFailedBatches*)
(* URLs are records [kind, host, path, frag]; a page of the crawled site   *)
(* is a record [status, hrefs].                                            *)
(***************************************************************************)
EXTENDS Integers, Sequences, FiniteSets, TLC

VARIABLES
    cfg,            \* config.Config: maxPages, perSeedWorkers, progressEveryN, maxConcurrent
    web,            \* the crawled site: path -> [status, hrefs]
    urls,           \* FetchRequest.Urls of each request
    hpc,            \* position of each request's HandleFetch goroutine
    semaphore,      \* Handler.semaphore: number of slots taken
    activeRequests, \* Handler.activeRequests
    reqWg,          \* StartCrawl's WaitGroup counter, per request
    spc,            \* position of each seed goroutine of StartCrawl
    cs,             \* crawlState + urlQueue + wg of each seed crawl
    wk,             \* the seed workers: wk[slot][w]
    batches,        \* the batches handed to AnalyzerClient.SendBatch
    published,      \* per request id: the Publish calls made, in order
    requestCh,      \* EventHub.requestCh: request id -> set of subscribers
    subs,           \* the Subscriber handles: state, channel, histories
    pubs,           \* the goroutines inside EventHub.Publish
    analyzer,       \* the responses the analyzer endpoint may give to a POST
    acHub,          \* AnalyzerClient.eventHub != nil
    sends,          \* the calls of AnalyzerClient.SendBatch, one per calling goroutine
    dlq,            \* DeadLetterQueue: redisClient != nil, and the list in the store
    dw,             \* the goroutine using the DeadLetterQueue
    store,          \* the task store of the queue worker: the tasks and the queue keys
    tw              \* queueWorker's scans and the processCrawlTask goroutines they start

crawlVars == <<cfg, web, urls, hpc, semaphore, activeRequests, reqWg, spc, cs, wk, batches>>
hubVars == <<requestCh, subs, pubs>>
clientVars == <<analyzer, acHub, sends>>
dlqVars == <<dlq, dw>>
taskVars == <<store, tw>>
vars == <<cfg, web, urls, hpc, semaphore, activeRequests, reqWg, spc, cs, wk, batches,
          published, requestCh, subs, pubs, analyzer, acHub, sends, dlq, dw, store, tw>>

(***************************************************************************)
(* Bounds of the model                                                     *)
(***************************************************************************)
NumRequests == 2
MaxSeeds == 2
MaxPagesCap == 3
BatchCap == 2
NumTasks == 1
NumScans == 2
NumWorkers == 2
MaxSubs == 2
NumPublishers == 2
MaxEnqueues == 2
MaxPublish == 2
MaxReceive == 2

\* make(chan string, 1024)
QueueCap == 1024

Requests == 1..NumRequests
RequestID(r) == IF r = 0 THEN "" ELSE IF r = 1 THEN "R1" ELSE IF r = 2 THEN "R2" ELSE "R3"
SlotsOf(r) == {<<r, i>> : i \in 1..MaxSeeds}
Slots == UNION {SlotsOf(r) : r \in Requests}
Workers == 1..NumWorkers
SubIds == 1..MaxSubs
PubIds == 1..NumPublishers

\* the keys of EventHub.requestCh: "" (global) and the request ids
HubKeys == {RequestID(r) : r \in 0..3}

\* make(chan ProgressEvent, 256)
ChanCap == 256

(***************************************************************************)
(* URLs                                                                    *)
(***************************************************************************)
Url(k, h, p, f) == [kind |-> k, host |-> h, path |-> p, frag |-> f]
EmptyUrl == Url("empty", "", "", "")
Abs(h, p) == Url("abs", h, p, "")

\* strings.ToLower on the host names of the model
ToLower(h) == IF h = "SITE" THEN "site" ELSE h

\* utils.SameHost: strings.EqualFold
SameHost(a, b) == ToLower(a) = ToLower(b)

\* url.Parse fails
ParseFails(u) == u.kind = "bad"

\* url.Parse(u).Host
HostOf(u) == IF u.kind = "abs" THEN u.host ELSE ""

\* (*URL).Parse(href): href resolved against base
Resolve(base, href) ==
    CASE href.kind = "abs" -> href
      [] href.kind = "rel" -> Url(base.kind, base.host, href.path, href.frag)
      [] href.kind = "empty" -> base
      [] OTHER -> href

NormalizeURLKeepFragment(base, href) ==
    IF href.kind = "empty" \/ href.kind = "js" THEN EmptyUrl
    ELSE IF ParseFails(base) THEN EmptyUrl
    ELSE IF ParseFails(href) THEN EmptyUrl
    ELSE Resolve(base, href)

\* NormalizeURL(baseURL, href)
NormalizeURL(base, href) ==
    IF href.kind = "empty" \/ href.kind = "js" THEN EmptyUrl
    ELSE IF ParseFails(base) THEN EmptyUrl
    ELSE IF ParseFails(href) THEN EmptyUrl
    ELSE [Resolve(base, href) EXCEPT !.frag = ""]

\* the a[href] of the document, in order: resolved, and kept when the host is
\* the host of the base
SelectLinks(base, hrefs) ==
    LET Kept(href) == ~ParseFails(href) /\ SameHost(HostOf(Resolve(base, href)), HostOf(base))
        kept == SelectSeq(hrefs, Kept)
    IN [i \in 1..Len(kept) |-> Resolve(base, kept[i])]

\* ExtractSameDomainLinks(htmlStr, baseURL): every a[href], resolved, same host
ExtractSameDomainLinks(page, base) == SelectLinks(base, page.hrefs)

\* PageFetcher.FetchPage(target): the page the site serves at target's path
FetchPage(target) ==
    LET page == web[target.path]
    IN [url |-> target, status |-> page.status,
        hrefs |-> IF page.status = "error" THEN <<>> ELSE page.hrefs]

(***************************************************************************)
(* Events                                                                  *)
(***************************************************************************)
\* ProgressEvent; seed is the index of the publishing seed goroutine (0: StartCrawl)
Event(t, r, u, d, n, i) ==
    [type |-> t, request_id |-> RequestID(r), url |-> u, done |-> d, total |-> n,
     percent |-> [num |-> 0, den |-> 1], seed |-> i]

\* utils.Percent(done, total), as the fraction num/den
Percent(done, total) ==
    IF total <= 0 THEN [num |-> 0, den |-> 1] ELSE [num |-> done * 100, den |-> total]

\* a ProgressEvent with Percent: utils.Percent(done, total)
Counted(ev) == [ev EXCEPT !.percent = Percent(ev.done, ev.total)]

\* EventHub.Publish(ev) with no subscriber registered, as in the crawl
\* specification: the call is recorded and returns. With subscribers it is
\* PublishBegin, PublishSend, PublishRequest, PublishEnd below.
Publish(r, ev) ==
    published' = [published EXCEPT ![RequestID(r)] = Append(@, ev)]

(***************************************************************************)
(* enqueue (closure of CrawlOneSeed)                                       *)
(***************************************************************************)
AtCapacityNever(c) == FALSE

AtCapacityOffByOne(c) == Cardinality(c.visited) > c.maxPages

\* len(st.visited) >= st.maxPages
AtCapacity(c) == Cardinality(c.visited) >= c.maxPages

AlreadyVisitedNever(c, link) == FALSE

\* _, ok := st.visited[link]
AlreadyVisited(c, link) == link \in c.visited

\* the link passes the checks made before the lock is taken
Navigable(c, link) ==
    /\ link # EmptyUrl
    /\ ~ParseFails(link)
    /\ SameHost(c.mainHost, HostOf(link))

\* enqueue(link) admits the link
Admits(c, href) ==
    LET link == NormalizeURL(c.mainURL, href)
    IN Navigable(c, link) /\ ~AtCapacity(c) /\ ~AlreadyVisited(c, link)

\* enqueue(link) blocks on urlQueue <- link
EnqueueBlocked(c, href) == Admits(c, href) /\ Len(c.urlQueue) >= QueueCap

\* the crawl state after enqueue(link)
Enqueue(c, href) ==
    LET link == NormalizeURL(c.mainURL, href)
    IN IF Admits(c, href)
       THEN [c EXCEPT !.visited = @ \cup {link},
                      !.wg = @ + 1,
                      !.enqueued = @ + 1,
                      !.urlQueue = Append(@, link),
                      !.pushed = Append(@, link)]
       ELSE c

\* mu: the worker that holds st.mu, 0 when it is free; currentBatch and batchNum
\* are the fields of the crawlState that sends batches while the crawl runs
NoCrawl ==
    [mainURL |-> EmptyUrl, mainHost |-> "", visited |-> {}, maxPages |-> 0,
     pages |-> <<>>, processed |-> 0, enqueued |-> 0,
     urlQueue |-> <<>>, wg |-> 0, closed |-> FALSE, pushed |-> <<>>, mu |-> 0,
     currentBatch |-> <<>>, batchNum |-> 0]

\* st := &crawlState{...}; urlQueue := make(chan string, 1024)
NewCrawlState(seed) ==
    [NoCrawl EXCEPT !.mainURL = seed, !.mainHost = ToLower(HostOf(seed)),
                    !.maxPages = cfg.maxPages]

NoPage == [url |-> EmptyUrl, status |-> "none", hrefs |-> <<>>]

\* a worker goroutine not started yet
IdleWorker == [pc |-> "none", u |-> EmptyUrl, page |-> NoPage,
               links |-> <<>>, done |-> 0, total |-> 0]

(***************************************************************************)
(* Seeds and sites explored                                                *)
(***************************************************************************)
SeedSite == Abs("site", "/")
SeedUpper == Abs("SITE", "/")
SeedFrag == Url("abs", "site", "/", "f")
SeedNoHost == Url("rel", "", "/a", "")
SeedBad == Url("bad", "", "", "")
SeedBlank == Url("blank", "", "", "")

\* strings.TrimSpace(u) == ""
IsBlank(u) == u.kind = "blank"

Rel(p) == Url("rel", "", p, "")
RelFrag(p) == Url("rel", "", p, "f")
JsHref == Url("js", "", "", "")
EmptyHref == Url("empty", "", "", "")
Html(hrefs) == [status |-> "html", hrefs |-> hrefs]

\* a path so long that the archive file name made from it exceeds 65535 bytes
LongPath == "/long"

\* a response with an HTML content type and no body
EmptyBody == [status |-> "empty", hrefs |-> <<>>]

Paths == {"/", "/a", "/b", "/c", "/e", LongPath}

ChainSite ==
    [p \in Paths |->
        CASE p = "/" -> Html(<<Rel("/a")>>)
          [] p = "/a" -> Html(<<Rel("/b")>>)
          [] p = "/b" -> Html(<<Rel("/c")>>)
          [] OTHER -> Html(<<>>)]

CycleSite ==
    [p \in Paths |->
        CASE p = "/" -> Html(<<Rel("/a"), RelFrag("/"), Rel("/b")>>)
          [] p = "/a" -> Html(<<Rel("/"), Rel("/b"), Rel("/a")>>)
          [] p = "/b" -> Html(<<Abs("other", "/c"), Rel("/")>>)
          [] OTHER -> Html(<<>>)]

FanSite ==
    [p \in Paths |->
        CASE p = "/" -> Html(<<Rel("/a"), JsHref, Rel("/b"), RelFrag("/a"), Rel("/c"), EmptyHref>>)
          [] p = "/a" -> [status |-> "error", hrefs |-> <<Rel("/b")>>]
          [] p = "/b" -> [status |-> "other", hrefs |-> <<Rel("/c")>>]
          [] OTHER -> Html(<<Abs("SITE", "/a"), SeedBad>>)]

PairSite ==
    [p \in Paths |->
        CASE p = "/" -> Html(<<Rel("/a")>>)
          [] OTHER -> Html(<<Rel("/")>>)]

\* a page without body and a page that fails, both linked from the seed page
OddSite ==
    [p \in Paths |->
        CASE p = "/" -> Html(<<Rel("/e"), Rel("/a")>>)
          [] p = "/e" -> EmptyBody
          [] p = "/a" -> [status |-> "error", hrefs |-> <<>>]
          [] OTHER -> Html(<<>>)]

\* a page whose path is too long for an archive entry
LongSite ==
    [p \in Paths |->
        CASE p = "/" -> Html(<<Rel(LongPath)>>)
          [] OTHER -> Html(<<>>)]

Sites == {ChainSite, CycleSite, FanSite, OddSite, LongSite}

\* the i-th page of a site whose seed page links to more pages than urlQueue holds
WidePath(i) == "/p" \o ToString(i)

\* the number of links of the seed page of that site
WideFan == QueueCap + 1

WidePaths == {WidePath(i) : i \in 1..WideFan}

WideSite ==
    [p \in Paths \cup WidePaths |->
        IF p = "/" THEN Html([i \in 1..WideFan |-> Rel(WidePath(i))]) ELSE Html(<<>>)]

ProgressEveryN == 2

CrawlSeeds == {SeedSite, SeedUpper, SeedFrag, SeedNoHost}

\* the seed lists of the requests: valid, blank, unparsable and host-less seeds
OrchUrls ==
    {[r \in Requests |->
        CASE r = 1 -> <<SeedSite, SeedBad>>
          [] r = 2 -> <<SeedBlank, SeedSite>>
          [] OTHER -> <<SeedNoHost>>],
     [r \in Requests |->
        CASE r = 1 -> <<SeedSite, SeedSite>>
          [] r = 2 -> <<SeedNoHost>>
          [] OTHER -> <<SeedBlank>>],
     [r \in Requests |->
        CASE r = 1 -> <<SeedBlank>>
          [] r = 2 -> <<SeedUpper>>
          [] OTHER -> <<SeedBad>>]}

(***************************************************************************)
(* Initial states                                                          *)
(***************************************************************************)
\* a Subscriber handle not created yet
FreeSub == [state |-> "free", rid |-> "", ch |-> <<>>, received |-> <<>>]

\* a goroutine outside Publish
IdlePub == [pc |-> "idle", ev |-> Event("none", 0, EmptyUrl, 0, 0, 0), todo |-> {},
            gave |-> {}, n |-> 0]

(***************************************************************************)
(* The analyzer client and the dead letter queue: data                     *)
(***************************************************************************)
\* NewAnalyzerClient: maxRetries
maxRetries == 3

\* NewAnalyzerClient: retryBackoff, in seconds
retryBackoff == 2

\* what httpClient.Do returns: an HTTP response with a status code, or an error
\* a text is a sequence of runs of valid UTF-8, with InvalidByte standing for a
\* byte that is not valid UTF-8 and ReplacementChar for U+FFFD
InvalidByte == "<0xFF>"
ReplacementChar == "<U+FFFD>"

StatusBody(n, body) == [status |-> n, neterr |-> "", body |-> body]
Status(n) == StatusBody(n, <<>>)
NetErr(msg) == [status |-> 0, neterr |-> msg, body |-> <<>>]
NoResp == [status |-> 0, neterr |-> "none", body |-> <<>>]

\* error values of the client
NilErr == [kind |-> "nil", resp |-> NoResp]
Err(kind, resp) == [kind |-> kind, resp |-> resp]

\* the transport errors of the model that isTransientNetErr recognises: a
\* net.Error timeout, or a message containing "connection reset", "unexpected
\* EOF", "broken pipe", "timeout" or "EOF"
isTransientNetErr(msg) ==
    msg \in {"i/o timeout", "connection reset by peer", "broken pipe", "unexpected EOF"}

sendBatchOnceNoRangeCheck(resp) ==
    IF resp.neterr # ""
    THEN IF isTransientNetErr(resp.neterr)
         THEN Err("transient http error", resp)
         ELSE Err("http request failed", resp)
    ELSE IF resp.status = 202 THEN NilErr
    ELSE IF resp.status >= 400 THEN Err("analyzer returned HTTP", resp)
    ELSE NilErr

\* sendBatchOnce: the error of one attempt, given what httpClient.Do returned
sendBatchOnce(resp) ==
    IF resp.neterr # ""
    THEN IF isTransientNetErr(resp.neterr)
         THEN Err("transient http error", resp)
         ELSE Err("http request failed", resp)
    ELSE IF resp.status = 202 THEN NilErr
    ELSE IF resp.status >= 400 THEN Err("analyzer returned HTTP", resp)
    ELSE IF resp.status < 200 \/ resp.status >= 300 THEN Err("unexpected status code", resp)
    ELSE NilErr

BackoffLinear(attempt) == retryBackoff * (attempt + 1)

\* ac.retryBackoff * time.Duration(1<<uint(attempt)), in seconds
Backoff(attempt) == retryBackoff * (2 ^ attempt)

InBudgetOneMore(attempt) == attempt <= maxRetries + 1

\* the loop condition attempt <= ac.maxRetries
InBudget(attempt) == attempt <= maxRetries

\* attempt < ac.maxRetries: another attempt follows a failed one
RetriesLeft(attempt) == attempt < maxRetries

\* behaviours of the analyzer endpoint: the responses it may give
AlwaysFails == {Status(500)}
Flaky == {Status(503), Status(202)}
Mixed == {Status(101), Status(200), Status(299), Status(304), Status(404),
          NetErr("i/o timeout"), NetErr("connection refused")}
Accepting == {Status(202)}
Garbled == {StatusBody(500, <<InvalidByte>>)}

\* the goroutines that call SendBatch: sendSingleBatch's goroutine of each seed,
\* and the goroutine running RetryFailedBatches
DlqSender == <<0, 0>>
Senders == Slots \cup {DlqSender}

\* BatchStats
BatchStats(ok, bad) == [successful |-> ok, failed |-> bad]

\* the zero PageBatch; seed is the index of the seed goroutine that built it
NoBatch == [request_id |-> "", batch_id |-> <<>>, main_url |-> EmptyUrl, batch_num |-> 0,
            pages |-> <<>>, is_complete |-> FALSE, total_pages |-> 0,
            archive |-> <<>>, compression |-> "", metadata |-> <<>>,
            stats |-> BatchStats(0, 0), seed |-> 0]

\* no SendBatch call in progress
NoSend == [pc |-> "none", batch |-> NoBatch, attempt |-> 0, lastErr |-> NilErr,
           tries |-> <<>>, waits |-> <<>>, result |-> NilErr]

\* SendBatch(b) is entered: attempt := 0
SendBatchCall(b) == [NoSend EXCEPT !.pc = "attempt", !.batch = b]

\* NewAnalyzerClient leaves eventHub nil and nothing calls SetEventHub
InitClient ==
    /\ acHub = FALSE
    /\ sends = [j \in Senders |-> NoSend]

(***************************************************************************)
(* The dead letter queue: records, their JSON form, the list in the store  *)
(***************************************************************************)
\* FailedBatch
FailedBatch(id, url, pages, err, ts, n) ==
    [request_id |-> id, main_url |-> url, batch_num |-> 1, pages |-> pages,
     error |-> err, timestamp |-> ts, retry_count |-> n]

NoRecord == FailedBatch("", <<>>, <<>>, <<>>, 0, 0)

\* json.Marshal of a string coerces it to valid UTF-8: an invalid byte becomes
\* U+FFFD
JsonAtom(str) == IF str = InvalidByte THEN ReplacementChar ELSE str
JsonText(text) == [k \in 1..Len(text) |-> JsonAtom(text[k])]

\* a field tagged omitempty is left out of the object when it is empty
OmitEmpty(text) ==
    IF text = <<>> THEN [present |-> FALSE, text |-> <<>>]
    ELSE [present |-> TRUE, text |-> JsonText(text)]

\* a field absent from the object leaves the zero value
OrZero(field) == IF field.present THEN field.text ELSE <<>>

\* json.Marshal / json.Unmarshal of a PageContent
MarshalPage(pg) ==
    [url |-> JsonText(pg.url), html |-> JsonText(pg.html),
     error |-> OmitEmpty(pg.error), content_type |-> OmitEmpty(pg.content_type)]
UnmarshalPage(obj) ==
    [url |-> obj.url, html |-> obj.html,
     error |-> OrZero(obj.error), content_type |-> OrZero(obj.content_type)]

\* json.Marshal(failedBatch): the timestamp is written as RFC 3339 with
\* nanoseconds, which keeps the instant
Marshal(rec) ==
    [request_id |-> JsonAtom(rec.request_id), main_url |-> JsonText(rec.main_url),
     batch_num |-> rec.batch_num,
     pages |-> [k \in 1..Len(rec.pages) |-> MarshalPage(rec.pages[k])],
     error |-> JsonText(rec.error), timestamp |-> rec.timestamp,
     retry_count |-> rec.retry_count]

\* json.Unmarshal(data, &batch)
Unmarshal(obj) ==
    [request_id |-> obj.request_id, main_url |-> obj.main_url,
     batch_num |-> obj.batch_num,
     pages |-> [k \in 1..Len(obj.pages) |-> UnmarshalPage(obj.pages[k])],
     error |-> obj.error, timestamp |-> obj.timestamp,
     retry_count |-> obj.retry_count]

\* an element of the list in the store: the JSON data, with the number of the
\* Enqueue call that pushed it, the user call the record descends from, the
\* record as it was passed to Enqueue, and whether the list was empty then
Element(rec, ticket, origin, onEmpty) ==
    [data |-> Marshal(rec), ticket |-> ticket, origin |-> origin, orig |-> rec,
     onEmpty |-> onEmpty]
NoElement == Element(NoRecord, 0, 0, FALSE)

\* LPUSH
LPush(list, e) == <<e>> \o list

PopIndexHead(list) == 1

\* RPOP takes the last element of the list
PopIndex(list) == Len(list)
Remove(list, i) == [k \in 1..(Len(list) - 1) |-> IF k < i THEN list[k] ELSE list[k + 1]]

DisabledNever(q) == FALSE

\* dlq.redisClient == nil
Disabled(q) == ~q.client

\* NewDeadLetterQueue(redisClient, queueName)
NewDeadLetterQueue(client) ==
    [client |-> client, list |-> <<>>, tickets |-> 0, fresh |-> 0,
     dropped |-> {}, delivered |-> {}]

\* Enqueue(failedBatch): the queue afterwards; the call returns nil
DlqEnqueue(q, rec, origin) ==
    IF Disabled(q) THEN q
    ELSE [q EXCEPT !.list = LPush(@, Element(rec, q.tickets + 1, origin, q.list = <<>>)),
                   !.tickets = @ + 1]

\* Dequeue(): the element popped, if any, and the queue afterwards
Dequeues(q) == ~Disabled(q) /\ q.list # <<>>
Dequeued(q) == q.list[PopIndex(q.list)]
AfterDequeue(q) == IF Dequeues(q) THEN [q EXCEPT !.list = Remove(@, PopIndex(q.list))] ELSE q

\* Length()
Length(q) == IF Disabled(q) THEN 0 ELSE Len(q.list)

\* what the last call of Enqueue, Dequeue or Length returned, with the tickets
\* stored when it was called
NoResult == [op |-> "none", found |-> FALSE, rec |-> NoRecord, elem |-> NoElement,
             ids |-> {}, n |-> 0, left |-> 0, err |-> NilErr]
Tickets(q) == {q.list[k].ticket : k \in 1..Len(q.list)}
DequeueResult(q) ==
    [op |-> "Dequeue", found |-> Dequeues(q),
     rec |-> IF Dequeues(q) THEN Unmarshal(Dequeued(q).data) ELSE NoRecord,
     elem |-> IF Dequeues(q) THEN Dequeued(q) ELSE NoElement,
     ids |-> Tickets(q), n |-> 0, left |-> Len(AfterDequeue(q).list), err |-> NilErr]

\* the records handed to the queue after a first delivery failure
PlainPage == [url |-> <<"http://site/">>, html |-> <<"<html>">>, error |-> <<>>,
              content_type |-> <<"text/html">>]
\* a PageBatch whose delivery failed: one page, packaged as sendSingleBatch does
FailedDelivery(r) ==
    [NoBatch EXCEPT !.request_id = RequestID(r), !.batch_id = <<"batch", r, 1>>,
                    !.main_url = <<"http://site/">>, !.batch_num = 1,
                    !.pages = <<PlainPage>>, !.is_complete = TRUE, !.total_pages = 1,
                    !.archive = <<[name |-> [base |-> <<"site", "index">>, idx |-> 1],
                                  url |-> <<"http://site/">>]>>,
                    !.compression = "zip-base64",
                    !.metadata = <<[url |-> <<"http://site/">>,
                                    file_name |-> [base |-> <<"site", "index">>, idx |-> 1],
                                    content_type |-> "text/html", error |-> FALSE,
                                    has_html |-> TRUE]>>,
                    !.stats = BatchStats(1, 0)]

\* the FailedBatch of a batch: the fields the struct has for it
FreshRecord(r) ==
    FailedBatch(FailedDelivery(r).request_id, FailedDelivery(r).main_url,
                FailedDelivery(r).pages, <<"analyzer returned HTTP">>, 0, 0)

\* the goroutine of RetryFailedBatches outside a pass. Of its last call it keeps
\* the records stored when the call began (began), the records passed to
\* SendBatch, in order (tried), the number of records callers had enqueued by
\* then (fresh), and whether the call has returned (ended)
IdleQueueUser == [pc |-> "idle", cur |-> NoElement, out |-> NoResult,
                  began |-> {}, tried |-> <<>>, fresh |-> 0, ended |-> FALSE]

\* the dead letter queue is not in use
(***************************************************************************)
(* The task store and the queue worker                                     *)
(***************************************************************************)
Tasks == 1..NumTasks

\* the processCrawlTask goroutine that scan k of queueWorker starts for task t
TaskRuns == Tasks \X (1..NumScans)

\* the zero CrawlTask: no value under the key of the task
NoTask == [id |-> 0, main_url |-> EmptyUrl, status |-> "", pages |-> <<>>, total_pages |-> 0]

\* a processCrawlTask goroutine not started yet
IdleRun == [pc |-> "none", task |-> NoTask, visited |-> {}, queue |-> <<>>, results |-> <<>>]

\* the store after the connection is made: no task, no queue key, no scan yet
InitNoTasks ==
    /\ store = [tasks |-> [t \in Tasks |-> NoTask], keys |-> {}]
    /\ tw = [scans |-> 0, run |-> [g \in TaskRuns |-> IdleRun]]

InitNoQueue ==
    /\ dlq = NewDeadLetterQueue(FALSE)
    /\ dw = IdleQueueUser
    /\ InitNoTasks

\* NewEventHub(): no subscriber
InitHub ==
    /\ published = [id \in HubKeys |-> <<>>]
    /\ requestCh = [id \in HubKeys |-> {}]
    /\ subs = [s \in SubIds |-> FreeSub]
    /\ pubs = [p \in PubIds |-> IdlePub]

InitIdle ==
    /\ hpc = [r \in Requests |-> "idle"]
    /\ semaphore = 0
    /\ activeRequests = {}
    /\ reqWg = [r \in Requests |-> 0]
    /\ spc = [sl \in Slots |-> "none"]
    /\ cs = [sl \in Slots |-> NoCrawl]
    /\ wk = [sl \in Slots |-> [w \in Workers |-> IdleWorker]]
    /\ batches = <<>>

\* one request with one seed, crawled by the full worker pool
InitCrawl ==
    /\ \E m \in 1..MaxPagesCap :
          cfg = [maxPages |-> m, perSeedWorkers |-> NumWorkers,
                 progressEveryN |-> ProgressEveryN, maxConcurrent |-> 1, batchSize |-> BatchCap]
    /\ web \in Sites
    /\ \E seed \in CrawlSeeds :
          urls = [r \in Requests |-> IF r = 1 THEN <<seed>> ELSE <<>>]
    /\ InitIdle
    /\ InitHub
    /\ analyzer = Accepting
    /\ InitClient
    /\ InitNoQueue

\* several requests with several seeds each, one worker per seed
InitOrch ==
    /\ \E m \in {1, 3}, k \in 1..NumRequests :
          cfg = [maxPages |-> m, perSeedWorkers |-> 1,
                 progressEveryN |-> ProgressEveryN, maxConcurrent |-> k, batchSize |-> BatchCap]
    /\ web = PairSite
    /\ urls \in OrchUrls
    /\ InitIdle
    /\ InitHub
    /\ analyzer = Accepting
    /\ InitClient
    /\ InitNoQueue

Init == InitCrawl \/ InitOrch

\* the event a subscriber's channel was filled with before the run
Filler(r) == Event("progress", r, EmptyUrl, 0, 0, 0)

\* a subscriber under id that has read nothing of the k events published for r
HeldBack(id, r, k) ==
    [FreeSub EXCEPT !.state = "open", !.rid = id,
                    !.ch = [i \in 1..k |-> Filler(r)]]

\* the hub alone: no subscriber yet, or one slow global subscriber one event short
\* of a full channel
InitHubOnly ==
    /\ cfg = [maxPages |-> 1, perSeedWorkers |-> 1,
              progressEveryN |-> ProgressEveryN, maxConcurrent |-> 1, batchSize |-> BatchCap]
    /\ web = ChainSite
    /\ urls = [r \in Requests |-> <<>>]
    /\ InitIdle
    /\ analyzer = Accepting
    /\ InitClient
    /\ InitNoQueue
    /\ pubs = [p \in PubIds |-> IdlePub]
    /\ \/ InitHub
       \/ /\ published = [id \in HubKeys |->
                          IF id = RequestID(1) THEN [i \in 1..(ChanCap - 1) |-> Filler(1)]
                          ELSE <<>>]
          /\ requestCh = [id \in HubKeys |-> IF id = "" THEN {1} ELSE {}]
          /\ subs = [s \in SubIds |->
                       IF s = 1 THEN HeldBack("", 1, ChanCap - 1) ELSE FreeSub]

(***************************************************************************)
(* HandleFetch and StartCrawl                                              *)
(***************************************************************************)
\* the methods of the submissions
Methods == {"POST", "GET"}

RejectsByMethodOnly(method, decoded, list) == method # "POST"

\* r.Method != http.MethodPost; Decode(&req) fails or len(req.Urls) == 0
Rejects(method, decoded, list) == method # "POST" \/ ~decoded \/ Len(list) = 0

\* HandleFetch answers 405 or 400 and returns
HandleFetchReject(r) ==
    /\ hpc[r] = "idle"
    /\ \E method \in Methods, decoded \in BOOLEAN : Rejects(method, decoded, urls[r])
    /\ hpc' = [hpc EXCEPT ![r] = "rejected"]
    /\ UNCHANGED <<cfg, web, urls, semaphore, activeRequests, reqWg, spc, cs, wk, batches,
                   published>>
    /\ UNCHANGED hubVars
    /\ UNCHANGED <<clientVars, dlqVars, taskVars>>

\* HandleFetch: the request is accepted, registered, and its goroutine started
HandleFetch(r) ==
    /\ hpc[r] = "idle"
    /\ \E method \in Methods, decoded \in BOOLEAN : ~Rejects(method, decoded, urls[r])
    /\ hpc' = [hpc EXCEPT ![r] = "queued"]
    /\ activeRequests' = activeRequests \cup {r}
    /\ UNCHANGED <<cfg, web, urls, semaphore, reqWg, spc, cs, wk, batches, published>>
    /\ UNCHANGED hubVars
    /\ UNCHANGED <<clientVars, dlqVars, taskVars>>

SlotFreeAlways == TRUE

\* h.semaphore <- struct{}{} does not block: the channel of capacity
\* maxConcurrent has a free slot
SlotFree == semaphore < cfg.maxConcurrent

\* h.semaphore <- struct{}{}, then StartCrawl's loop: one goroutine per non-blank seed
StartCrawl(r) ==
    /\ hpc[r] = "queued"
    /\ SlotFree
    /\ semaphore' = semaphore + 1
    /\ hpc' = [hpc EXCEPT ![r] = "running"]
    /\ spc' = [sl \in Slots |->
                 IF sl[1] = r /\ sl[2] <= Len(urls[r]) /\ ~IsBlank(urls[r][sl[2]])
                 THEN "spawned" ELSE spc[sl]]
    /\ reqWg' = [reqWg EXCEPT ![r] =
                   Cardinality({i \in 1..Len(urls[r]) : ~IsBlank(urls[r][i])})]
    /\ UNCHANGED <<cfg, web, urls, activeRequests, cs, wk, batches, published>>
    /\ UNCHANGED hubVars
    /\ UNCHANGED <<clientVars, dlqVars, taskVars>>

AllSeedsDoneUnchecked(r) == TRUE

\* wg.Wait() of StartCrawl returns
AllSeedsDone(r) == reqWg[r] = 0

\* wg.Wait() returns; the request-level complete event
StartCrawlComplete(r) ==
    /\ hpc[r] = "running"
    /\ AllSeedsDone(r)
    /\ Publish(r, Event("complete", r, EmptyUrl, 0, 0, 0))
    /\ hpc' = [hpc EXCEPT ![r] = "completed"]
    /\ UNCHANGED <<cfg, web, urls, semaphore, activeRequests, reqWg, spc, cs, wk, batches>>
    /\ UNCHANGED hubVars
    /\ UNCHANGED <<clientVars, dlqVars, taskVars>>

\* h.activeRequests.Delete(requestID); deferred <-h.semaphore
HandleFetchReturn(r) ==
    /\ hpc[r] = "completed"
    /\ activeRequests' = activeRequests \ {r}
    /\ semaphore' = semaphore - 1
    /\ hpc' = [hpc EXCEPT ![r] = "done"]
    /\ UNCHANGED <<cfg, web, urls, reqWg, spc, cs, wk, batches, published>>
    /\ UNCHANGED hubVars
    /\ UNCHANGED <<clientVars, dlqVars, taskVars>>

(***************************************************************************)
(* The seed goroutine of StartCrawl and CrawlOneSeed                       *)
(***************************************************************************)
SeedOf(sl) == urls[sl[1]][sl[2]]

SeedStartSilent(sl) ==
    /\ spc[sl] = "spawned"
    /\ spc' = [spc EXCEPT ![sl] = "started"]
    /\ UNCHANGED <<cfg, web, urls, hpc, semaphore, activeRequests, reqWg, cs, wk, batches, published>>
    /\ UNCHANGED hubVars
    /\ UNCHANGED <<clientVars, dlqVars, taskVars>>

\* c.eventHub.Publish(start)
SeedStart(sl) ==
    /\ spc[sl] = "spawned"
    /\ Publish(sl[1], Event("start", sl[1], SeedOf(sl), 0, 0, sl[2]))
    /\ spc' = [spc EXCEPT ![sl] = "started"]
    /\ UNCHANGED <<cfg, web, urls, hpc, semaphore, activeRequests, reqWg, cs, wk, batches>>
    /\ UNCHANGED hubVars
    /\ UNCHANGED <<clientVars, dlqVars, taskVars>>

InvalidSeedNoHostCheck(seed) == ParseFails(seed)

\* url.Parse(seed) fails or has no host
InvalidSeed(seed) == ParseFails(seed) \/ HostOf(seed) = ""

\* CrawlOneSeed returns "invalid seed"
SeedReject(sl) ==
    /\ spc[sl] = "started"
    /\ InvalidSeed(SeedOf(sl))
    /\ spc' = [spc EXCEPT ![sl] = "failed"]
    /\ UNCHANGED <<cfg, web, urls, hpc, semaphore, activeRequests, reqWg, cs, wk, batches, published>>
    /\ UNCHANGED hubVars
    /\ UNCHANGED <<clientVars, dlqVars, taskVars>>

\* the error event, then the deferred wg.Done()
SeedError(sl) ==
    /\ spc[sl] = "failed"
    /\ Publish(sl[1], Event("error", sl[1], SeedOf(sl), 0, 0, sl[2]))
    /\ spc' = [spc EXCEPT ![sl] = "done"]
    /\ reqWg' = [reqWg EXCEPT ![sl[1]] = @ - 1]
    /\ UNCHANGED <<cfg, web, urls, hpc, semaphore, activeRequests, cs, wk, batches>>
    /\ UNCHANGED hubVars
    /\ UNCHANGED <<clientVars, dlqVars, taskVars>>

\* CrawlOneSeed: the crawl state, enqueue(seed), the worker goroutines
SeedBegin(sl) ==
    /\ spc[sl] = "started"
    /\ ~InvalidSeed(SeedOf(sl))
    /\ cs' = [cs EXCEPT ![sl] = Enqueue(NewCrawlState(SeedOf(sl)), SeedOf(sl))]
    /\ wk' = [wk EXCEPT ![sl] =
                [w \in Workers |->
                    IF w <= cfg.perSeedWorkers THEN [IdleWorker EXCEPT !.pc = "recv"]
                    ELSE IdleWorker]]
    /\ spc' = [spc EXCEPT ![sl] = "crawling"]
    /\ UNCHANGED <<cfg, web, urls, hpc, semaphore, activeRequests, reqWg, batches, published>>
    /\ UNCHANGED hubVars
    /\ UNCHANGED <<clientVars, dlqVars, taskVars>>

(***************************************************************************)
(* buildCompressedArchive                                                  *)
(***************************************************************************)
\* page.Error != ""
HasError(page) == page.status = "error"

\* page.HTML != "": the body read from the response
HasBody(page) == page.status \in {"html", "other"}

\* page.ContentType
ContentType(page) ==
    CASE page.status \in {"html", "empty"} -> "text/html"
      [] page.status = "other" -> "application/pdf"
      [] OTHER -> ""

\* strings.Trim(parsed.Path, "/")
TrimSlashes(path) ==
    CASE path = "/" -> ""
      [] path = "/a" -> "a"
      [] path = "/b" -> "b"
      [] path = "/c" -> "c"
      [] path = "/e" -> "e"
      [] path = LongPath -> "long"
      [] OTHER -> path

NoFileName == [base |-> <<>>, idx |-> 0]

\* generateArchiveFileName(idx, pageURL, mainURL): "<host>-<path>-<idx>.html"
generateArchiveFileName(idx, pageURL, mainURL) ==
    LET target == IF pageURL = EmptyUrl THEN mainURL ELSE pageURL
        path == TrimSlashes(target.path)
    IN IF ParseFails(target) THEN [base |-> <<"page">>, idx |-> idx]
       ELSE [base |-> <<HostOf(target), IF path = "" THEN "index" ELSE path>>,
             idx |-> idx]

\* z.Create(fileName) fails: the name of an entry is at most 65535 bytes long
writeZipEntryFails(fileName) ==
    Len(fileName.base) = 2 /\ fileName.base[2] = TrimSlashes(LongPath)

PackagedAnyBody(page) == ~HasError(page)

\* the page gets a file in the archive: !(page.Error != "" || page.HTML == "")
Packaged(page) == ~HasError(page) /\ HasBody(page)

\* PageMetadata of a page
PageMetadata(page, fileName, hasHtml) ==
    [url |-> page.url, file_name |-> fileName, content_type |-> ContentType(page),
     error |-> HasError(page), has_html |-> hasHtml]

\* the loop of buildCompressedArchive from page idx on
RECURSIVE ArchiveFrom(_, _, _, _)
ArchiveFrom(mainURL, pages, idx, acc) ==
    IF idx > Len(pages) THEN acc
    ELSE LET page == pages[idx]
             fileName == generateArchiveFileName(idx, page.url, mainURL)
         IN IF ~Packaged(page)
            THEN ArchiveFrom(mainURL, pages, idx + 1,
                     [acc EXCEPT !.stats.failed = @ + 1,
                                 !.metadata = Append(@, PageMetadata(page, NoFileName, FALSE))])
            ELSE IF writeZipEntryFails(fileName)
            THEN [err |-> TRUE, archive |-> <<>>, metadata |-> <<>>, stats |-> acc.stats]
            ELSE ArchiveFrom(mainURL, pages, idx + 1,
                     [acc EXCEPT !.stats.successful = @ + 1,
                                 !.archive = Append(@, [name |-> fileName, url |-> page.url]),
                                 !.metadata = Append(@, PageMetadata(page, fileName, TRUE))])

\* buildCompressedArchive(mainURL, pages): archive, metadata, stats, err
buildCompressedArchive(mainURL, pages) ==
    ArchiveFrom(mainURL, pages, 1,
                [err |-> FALSE, archive |-> <<>>, metadata |-> <<>>,
                 stats |-> BatchStats(0, 0)])

\* uuid.New().String() of the batch of a seed
BatchID(sl) == <<"batch", sl[1], sl[2]>>

\* PageBatch built by sendSingleBatch from the archive
Batch(sl, c) ==
    LET built == buildCompressedArchive(c.mainURL, c.pages)
    IN [NoBatch EXCEPT !.request_id = RequestID(sl[1]), !.batch_id = BatchID(sl),
                       !.main_url = c.mainURL, !.batch_num = 1, !.is_complete = TRUE,
                       !.total_pages = Len(built.metadata), !.archive = built.archive,
                       !.compression = "zip-base64", !.metadata = built.metadata,
                       !.stats = built.stats, !.seed = sl[2]]

\* wg.Wait() returns; close(urlQueue); st.sendSingleBatch builds the archive and
\* the batch and starts the goroutine that calls SendBatch, or logs the error of
\* buildCompressedArchive and returns
SeedDrain(sl) ==
    /\ spc[sl] = "crawling"
    /\ cs[sl].wg = 0
    /\ cs' = [cs EXCEPT ![sl].closed = TRUE]
    /\ IF buildCompressedArchive(cs[sl].mainURL, cs[sl].pages).err
       THEN UNCHANGED <<batches, sends>>
       ELSE /\ batches' = Append(batches, Batch(sl, cs[sl]))
            /\ sends' = [sends EXCEPT ![sl] = SendBatchCall(Batch(sl, cs[sl]))]
    /\ spc' = [spc EXCEPT ![sl] = "sent"]
    /\ UNCHANGED <<cfg, web, urls, hpc, semaphore, activeRequests, reqWg, wk, published>>
    /\ UNCHANGED hubVars
    /\ UNCHANGED <<analyzer, acHub, dlqVars, taskVars>>

sendSingleBatchAwaitsDelivery(sl) ==
    spc[sl] = "sent" /\ sends[sl].pc = "done" /\ sends[sl].result = NilErr

\* sendSingleBatch has returned: SendBatch runs in a goroutine of its own and its
\* error is logged there
sendSingleBatchReturned(sl) == spc[sl] = "sent"

\* the seed-level complete event; CrawlOneSeed returns nil; deferred wg.Done()
SeedComplete(sl) ==
    /\ sendSingleBatchReturned(sl)
    /\ Publish(sl[1], Counted(Event("complete", sl[1], SeedOf(sl),
                                    cs[sl].processed, cs[sl].enqueued, sl[2])))
    /\ spc' = [spc EXCEPT ![sl] = "done"]
    /\ reqWg' = [reqWg EXCEPT ![sl[1]] = @ - 1]
    /\ UNCHANGED <<cfg, web, urls, hpc, semaphore, activeRequests, cs, wk, batches>>
    /\ UNCHANGED hubVars
    /\ UNCHANGED <<clientVars, dlqVars, taskVars>>

(***************************************************************************)
(* The seed workers: for u := range urlQueue { ... }                       *)
(***************************************************************************)
\* u := <-urlQueue
WorkerReceive(sl, w) ==
    /\ wk[sl][w].pc = "recv"
    /\ cs[sl].urlQueue # <<>>
    /\ wk' = [wk EXCEPT ![sl][w].pc = "fetch", ![sl][w].u = Head(cs[sl].urlQueue)]
    /\ cs' = [cs EXCEPT ![sl].urlQueue = Tail(@)]
    /\ UNCHANGED <<cfg, web, urls, hpc, semaphore, activeRequests, reqWg, spc, batches, published>>
    /\ UNCHANGED hubVars
    /\ UNCHANGED <<clientVars, dlqVars, taskVars>>

\* the range loop ends: urlQueue is closed and empty
WorkerRangeEnd(sl, w) ==
    /\ wk[sl][w].pc = "recv"
    /\ cs[sl].urlQueue = <<>>
    /\ cs[sl].closed
    /\ wk' = [wk EXCEPT ![sl][w].pc = "exit"]
    /\ UNCHANGED <<cfg, web, urls, hpc, semaphore, activeRequests, reqWg, spc, cs, batches, published>>
    /\ UNCHANGED hubVars
    /\ UNCHANGED <<clientVars, dlqVars, taskVars>>

\* pc := c.pageFetcher.FetchPage(u); st.addPage(pc)
WorkerFetch(sl, w) ==
    /\ wk[sl][w].pc = "fetch"
    /\ wk' = [wk EXCEPT ![sl][w].pc = "count", ![sl][w].page = FetchPage(wk[sl][w].u)]
    /\ cs' = [cs EXCEPT ![sl].pages = Append(@, FetchPage(wk[sl][w].u))]
    /\ UNCHANGED <<cfg, web, urls, hpc, semaphore, activeRequests, reqWg, spc, batches, published>>
    /\ UNCHANGED hubVars
    /\ UNCHANGED <<clientVars, dlqVars, taskVars>>

\* done := int(atomic.AddInt64(&st.processed, 1))
WorkerCount(sl, w) ==
    /\ wk[sl][w].pc = "count"
    /\ cs' = [cs EXCEPT ![sl].processed = @ + 1]
    /\ wk' = [wk EXCEPT ![sl][w].pc = "report", ![sl][w].done = cs[sl].processed + 1]
    /\ UNCHANGED <<cfg, web, urls, hpc, semaphore, activeRequests, reqWg, spc, batches, published>>
    /\ UNCHANGED hubVars
    /\ UNCHANGED <<clientVars, dlqVars, taskVars>>

ProgressDueOneLate(done) == done % cfg.progressEveryN = 1

\* done%c.config.ProgressEveryN == 0
ProgressDue(done) == done % cfg.progressEveryN = 0

\* total := int(atomic.LoadInt64(&st.enqueued)); the progress event when due
WorkerProgress(sl, w) ==
    /\ wk[sl][w].pc = "report"
    /\ wk' = [wk EXCEPT ![sl][w].pc = "check", ![sl][w].total = cs[sl].enqueued]
    /\ IF ProgressDue(wk[sl][w].done)
       THEN Publish(sl[1], Counted(Event("progress", sl[1], SeedOf(sl),
                                         wk[sl][w].done, cs[sl].enqueued, sl[2])))
       ELSE UNCHANGED published
    /\ UNCHANGED <<cfg, web, urls, hpc, semaphore, activeRequests, reqWg, spc, cs, batches>>
    /\ UNCHANGED hubVars
    /\ UNCHANGED <<clientVars, dlqVars, taskVars>>

LimitReachedOffByOne(c, done) == done > c.maxPages

\* done >= st.maxPages
LimitReached(c, done) == done >= c.maxPages

\* the limit_reached event; wg.Done(); return
WorkerLimit(sl, w) ==
    /\ wk[sl][w].pc = "check"
    /\ LimitReached(cs[sl], wk[sl][w].done)
    /\ Publish(sl[1], Event("limit_reached", sl[1], SeedOf(sl), 0, 0, sl[2]))
    /\ cs' = [cs EXCEPT ![sl].wg = @ - 1]
    /\ wk' = [wk EXCEPT ![sl][w].pc = "exit"]
    /\ UNCHANGED <<cfg, web, urls, hpc, semaphore, activeRequests, reqWg, spc, batches>>
    /\ UNCHANGED hubVars
    /\ UNCHANGED <<clientVars, dlqVars, taskVars>>

\* pc.Error == "" && strings.HasPrefix(pc.ContentType, "text/html")
Extractable(page) == ~HasError(page) /\ ContentType(page) = "text/html"

\* the links of the page, when it is an HTML page fetched without error
WorkerExtract(sl, w) ==
    /\ wk[sl][w].pc = "check"
    /\ ~LimitReached(cs[sl], wk[sl][w].done)
    /\ wk' = [wk EXCEPT ![sl][w].pc = "enqueue",
                        ![sl][w].links =
                            IF Extractable(wk[sl][w].page)
                            THEN ExtractSameDomainLinks(wk[sl][w].page, wk[sl][w].u)
                            ELSE <<>>]
    /\ UNCHANGED <<cfg, web, urls, hpc, semaphore, activeRequests, reqWg, spc, cs, batches, published>>
    /\ UNCHANGED hubVars
    /\ UNCHANGED <<clientVars, dlqVars, taskVars>>

\* enqueue(l) for the next link of the page
WorkerEnqueue(sl, w) ==
    /\ wk[sl][w].pc = "enqueue"
    /\ wk[sl][w].links # <<>>
    /\ ~EnqueueBlocked(cs[sl], Head(wk[sl][w].links))
    /\ cs' = [cs EXCEPT ![sl] = Enqueue(@, Head(wk[sl][w].links))]
    /\ wk' = [wk EXCEPT ![sl][w].links = Tail(@)]
    /\ UNCHANGED <<cfg, web, urls, hpc, semaphore, activeRequests, reqWg, spc, batches, published>>
    /\ UNCHANGED hubVars
    /\ UNCHANGED <<clientVars, dlqVars, taskVars>>

(***************************************************************************)
(* enqueue(l) statement by statement: WorkerEnqueue above takes the call   *)
(* as one step, the actions below take the lock, the map, the counters and *)
(* the channel send one at a time                                          *)
(***************************************************************************)
MutexFreeAlways(c) == TRUE

\* st.mu can be taken
MutexFree(c) == c.mu = 0

\* enqueue(l) up to the lock: a link that fails the checks made before it is
\* dropped and enqueue returns; otherwise st.mu.Lock(); defer st.mu.Unlock()
WorkerLock(sl, w) ==
    /\ wk[sl][w].pc = "enqueue"
    /\ wk[sl][w].links # <<>>
    /\ IF ~Navigable(cs[sl], NormalizeURL(cs[sl].mainURL, Head(wk[sl][w].links)))
       THEN /\ wk' = [wk EXCEPT ![sl][w].links = Tail(@)]
            /\ UNCHANGED cs
       ELSE /\ MutexFree(cs[sl])
            /\ cs' = [cs EXCEPT ![sl].mu = w]
            /\ wk' = [wk EXCEPT ![sl][w].pc = "locked"]
    /\ UNCHANGED <<cfg, web, urls, hpc, semaphore, activeRequests, reqWg, spc, batches, published>>
    /\ UNCHANGED hubVars
    /\ UNCHANGED <<clientVars, dlqVars, taskVars>>

\* the checks under the lock: at capacity or already visited, enqueue returns and
\* the deferred Unlock runs; otherwise st.visited[link] = struct{}{}
WorkerVisit(sl, w) ==
    /\ wk[sl][w].pc = "locked"
    /\ LET link == NormalizeURL(cs[sl].mainURL, Head(wk[sl][w].links))
       IN IF AtCapacity(cs[sl]) \/ AlreadyVisited(cs[sl], link)
          THEN /\ cs' = [cs EXCEPT ![sl].mu = 0]
               /\ wk' = [wk EXCEPT ![sl][w].pc = "enqueue", ![sl][w].links = Tail(@)]
          ELSE /\ cs' = [cs EXCEPT ![sl].visited = @ \cup {link}]
               /\ wk' = [wk EXCEPT ![sl][w].pc = "add"]
    /\ UNCHANGED <<cfg, web, urls, hpc, semaphore, activeRequests, reqWg, spc, batches, published>>
    /\ UNCHANGED hubVars
    /\ UNCHANGED <<clientVars, dlqVars, taskVars>>

\* wg.Add(1); atomic.AddInt64(&st.enqueued, 1)
WorkerAdd(sl, w) ==
    /\ wk[sl][w].pc = "add"
    /\ cs' = [cs EXCEPT ![sl].wg = @ + 1, ![sl].enqueued = @ + 1]
    /\ wk' = [wk EXCEPT ![sl][w].pc = "send"]
    /\ UNCHANGED <<cfg, web, urls, hpc, semaphore, activeRequests, reqWg, spc, batches, published>>
    /\ UNCHANGED hubVars
    /\ UNCHANGED <<clientVars, dlqVars, taskVars>>

QueueFullNever(c) == FALSE

\* urlQueue has no free slot: urlQueue <- link blocks
QueueFull(c) == Len(c.urlQueue) >= QueueCap

\* urlQueue <- link, then the deferred st.mu.Unlock()
WorkerSend(sl, w) ==
    /\ wk[sl][w].pc = "send"
    /\ ~QueueFull(cs[sl])
    /\ LET link == NormalizeURL(cs[sl].mainURL, Head(wk[sl][w].links))
       IN cs' = [cs EXCEPT ![sl].urlQueue = Append(@, link),
                           ![sl].pushed = Append(@, link),
                           ![sl].mu = 0]
    /\ wk' = [wk EXCEPT ![sl][w].pc = "enqueue", ![sl][w].links = Tail(@)]
    /\ UNCHANGED <<cfg, web, urls, hpc, semaphore, activeRequests, reqWg, spc, batches, published>>
    /\ UNCHANGED hubVars
    /\ UNCHANGED <<clientVars, dlqVars, taskVars>>

\* wg.Done() at the end of the loop body
WorkerDone(sl, w) ==
    /\ wk[sl][w].pc = "enqueue"
    /\ wk[sl][w].links = <<>>
    /\ cs' = [cs EXCEPT ![sl].wg = @ - 1]
    /\ wk' = [wk EXCEPT ![sl][w].pc = "recv"]
    /\ UNCHANGED <<cfg, web, urls, hpc, semaphore, activeRequests, reqWg, spc, batches, published>>
    /\ UNCHANGED hubVars
    /\ UNCHANGED <<clientVars, dlqVars, taskVars>>

(***************************************************************************)
(* EventHub and streamSSE                                                  *)
(***************************************************************************)
\* h.mu.Lock() can be taken: no goroutine is inside Publish holding h.mu.RLock()
WriteLockFreeUnlocked == TRUE

WriteLockFree == \A p \in PubIds : pubs[p].pc = "idle"

\* Subscribe(requestID), called by streamSSE: a new handle with an empty channel
Subscribe(s, rid) ==
    /\ subs[s].state = "free"
    /\ \A t \in SubIds : t < s => subs[t].state # "free"
    /\ WriteLockFree
    /\ subs' = [subs EXCEPT ![s] =
                  [FreeSub EXCEPT !.state = "open", !.rid = rid]]
    /\ requestCh' = [requestCh EXCEPT ![rid] = @ \cup {s}]
    /\ UNCHANGED <<pubs, published>>
    /\ UNCHANGED crawlVars
    /\ UNCHANGED <<clientVars, dlqVars, taskVars>>

\* Unsubscribe(requestID, s), deferred by streamSSE: the handle leaves the
\* registry and its channels are closed
Unsubscribe(s) ==
    /\ subs[s].state = "open"
    /\ WriteLockFree
    /\ requestCh' = [requestCh EXCEPT ![subs[s].rid] = @ \ {s}]
    /\ subs' = [subs EXCEPT ![s].state = "closed"]
    /\ UNCHANGED <<pubs, published>>
    /\ UNCHANGED crawlVars
    /\ UNCHANGED <<clientVars, dlqVars, taskVars>>

\* h.requestCh[requestID] has an entry: the map of a request id is deleted when
\* its last subscriber leaves
Registered(rid) == requestCh[rid] # {}

\* Unsubscribe(requestID, s) called again for a handle that Unsubscribe has
\* closed: without an entry for the request id nothing happens; with one,
\* delete(subs, s) finds nothing and close(s.ch) closes the closed channel, which
\* panics (the deferred Unlock still runs)
UnsubscribeAgain(s) ==
    /\ subs[s].state = "closed"
    /\ WriteLockFree
    /\ subs' = [subs EXCEPT ![s].state =
                  IF Registered(subs[s].rid) THEN "closed twice" ELSE @]
    /\ UNCHANGED <<requestCh, pubs, published>>
    /\ UNCHANGED crawlVars
    /\ UNCHANGED <<clientVars, dlqVars, taskVars>>

\* case ev := <-sub.ch in streamSSE's loop
Receive(s) ==
    /\ subs[s].state = "open"
    /\ subs[s].ch # <<>>
    /\ Len(subs[s].received) < MaxReceive
    /\ subs' = [subs EXCEPT ![s].ch = Tail(@),
                            ![s].received = Append(@, Head(subs[s].ch))]
    /\ UNCHANGED <<pubs, published, requestCh>>
    /\ UNCHANGED crawlVars
    /\ UNCHANGED <<clientVars, dlqVars, taskVars>>

\* Publish(ev) begins: h.mu.RLock(), then the global subscribers h.requestCh[""];
\* goroutine p publishes its n-th event for request r
PublishBegin(p, r) ==
    /\ pubs[p].pc = "idle"
    /\ pubs[p].n < MaxPublish
    /\ LET ev == Event("progress", r, EmptyUrl, pubs[p].n + 1, MaxPublish, p)
       IN /\ pubs' = [pubs EXCEPT ![p] = [pc |-> "global", ev |-> ev, todo |-> requestCh[""],
                                         gave |-> {}, n |-> pubs[p].n + 1]]
          /\ Publish(r, ev)
    /\ UNCHANGED <<requestCh, subs>>
    /\ UNCHANGED crawlVars
    /\ UNCHANGED <<clientVars, dlqVars, taskVars>>

ChanFullNever(q) == FALSE

\* the default case of the select: s.ch has no free slot
ChanFull(q) == Len(q) >= ChanCap

ChanSendFront(q, ev) == <<ev>> \o q

\* s.ch <- ev
ChanSend(q, ev) == Append(q, ev)

\* select { case s.ch <- ev: default: } for one subscriber of the current map
PublishSend(p, s) ==
    /\ pubs[p].pc \in {"global", "request"}
    /\ s \in pubs[p].todo
    /\ pubs' = [pubs EXCEPT ![p].todo = @ \ {s}, ![p].gave = @ \cup {s}]
    /\ subs' = [subs EXCEPT
                  ![s].ch = IF ChanFull(@) THEN @ ELSE ChanSend(@, pubs[p].ev)]
    /\ UNCHANGED <<requestCh, published>>
    /\ UNCHANGED crawlVars
    /\ UNCHANGED <<clientVars, dlqVars, taskVars>>

RequestTargetsAll(ev) == UNION {requestCh[id] : id \in HubKeys}

\* h.requestCh[ev.RequestID]
RequestTargets(ev) == requestCh[ev.request_id]

\* the second map of the loop: the subscribers of the event's request
PublishRequest(p) ==
    /\ pubs[p].pc = "global"
    /\ pubs[p].todo = {}
    /\ pubs' = [pubs EXCEPT ![p].pc = "request", ![p].todo = RequestTargets(pubs[p].ev)]
    /\ UNCHANGED <<requestCh, subs, published>>
    /\ UNCHANGED crawlVars
    /\ UNCHANGED <<clientVars, dlqVars, taskVars>>

\* Publish returns: deferred h.mu.RUnlock()
PublishEnd(p) ==
    /\ pubs[p].pc = "request"
    /\ pubs[p].todo = {}
    /\ pubs' = [pubs EXCEPT ![p].pc = "idle"]
    /\ UNCHANGED <<requestCh, subs, published>>
    /\ UNCHANGED crawlVars
    /\ UNCHANGED <<clientVars, dlqVars, taskVars>>

\* the next step of a goroutine inside Publish
PublishStep(p) ==
    \/ \E s \in SubIds : PublishSend(p, s)
    \/ PublishRequest(p)
    \/ PublishEnd(p)

(***************************************************************************)
(* AnalyzerClient.SendBatch                                                *)
(***************************************************************************)
\* the request index of a request id
RequestOf(id) == CHOOSE r \in 0..3 : RequestID(r) = id

\* attempt++ and the loop condition
NextAttempt(job) ==
    [job EXCEPT !.attempt = @ + 1,
                !.pc = IF InBudget(job.attempt + 1) THEN "attempt" ELSE "exhausted"]

\* one pass of the loop body: sendBatchOnce, return nil on success, otherwise
\* remember the error and, if attempts are left, start the backoff sleep
SendAttempt(j) ==
    /\ sends[j].pc = "attempt"
    /\ \E resp \in analyzer :
          LET err == sendBatchOnce(resp)
              tried == [sends[j] EXCEPT !.tries = Append(@, resp)]
              failed == [tried EXCEPT !.lastErr = err]
          IN  sends' = [sends EXCEPT ![j] =
                  IF err = NilErr
                  THEN [tried EXCEPT !.pc = "returned", !.result = NilErr]
                  ELSE IF RetriesLeft(sends[j].attempt)
                  THEN [failed EXCEPT !.pc = "backoff",
                                      !.waits = Append(@, Backoff(sends[j].attempt))]
                  ELSE NextAttempt(failed)]
    /\ UNCHANGED <<crawlVars, published, hubVars, analyzer, acHub, dlqVars, taskVars>>

\* time.Sleep(backoff) returns
SendBackoff(j) ==
    /\ sends[j].pc = "backoff"
    /\ sends' = [sends EXCEPT ![j] = NextAttempt(sends[j])]
    /\ UNCHANGED <<crawlVars, published, hubVars, analyzer, acHub, dlqVars, taskVars>>

\* after the loop: the failure event if an event hub is set, then return lastErr
SendGiveUp(j) ==
    /\ sends[j].pc = "exhausted"
    /\ IF acHub
       THEN Publish(RequestOf(sends[j].batch.request_id),
                    Event("batch_delivery_failed", RequestOf(sends[j].batch.request_id),
                          EmptyUrl, 0, 0, sends[j].batch.seed))
       ELSE UNCHANGED published
    /\ sends' = [sends EXCEPT ![j].pc = "returned", ![j].result = sends[j].lastErr]
    /\ UNCHANGED <<crawlVars, hubVars, analyzer, acHub, dlqVars, taskVars>>

\* sendSingleBatch's goroutine after SendBatch returned: an error is logged
DeliveryDone(sl) ==
    /\ sends[sl].pc = "returned"
    /\ sends' = [sends EXCEPT ![sl].pc = "done"]
    /\ UNCHANGED <<crawlVars, published, hubVars, analyzer, acHub, dlqVars, taskVars>>

(***************************************************************************)
(* The dead letter queue: its callers                                      *)
(***************************************************************************)
\* a caller hands a record to Enqueue after a first delivery failure
UserEnqueue(r) ==
    /\ dlq.fresh < MaxEnqueues
    /\ LET q == [dlq EXCEPT !.fresh = @ + 1]
       IN  /\ dlq' = DlqEnqueue(q, FreshRecord(r), q.fresh)
           /\ dw' = [dw EXCEPT !.out = [NoResult EXCEPT !.op = "Enqueue",
                                                        !.rec = FreshRecord(r),
                                                        !.ids = Tickets(dlq)]]
    /\ UNCHANGED <<crawlVars, published, hubVars, clientVars, taskVars>>

\* a caller calls Dequeue
UserDequeue ==
    /\ dw' = [dw EXCEPT !.out = DequeueResult(dlq)]
    /\ dlq' = AfterDequeue(dlq)
    /\ UNCHANGED <<crawlVars, published, hubVars, clientVars, taskVars>>

\* a caller calls Length
UserLength ==
    /\ dw' = [dw EXCEPT !.out = [NoResult EXCEPT !.op = "Length", !.n = Length(dlq),
                                                 !.ids = Tickets(dlq)]]
    /\ UNCHANGED <<dlq, crawlVars, published, hubVars, clientVars, taskVars>>

\* RetryFailedBatches(ac) is called
RetryStart ==
    /\ dw.pc = "idle"
    /\ dw' = [dw EXCEPT !.pc = "loop",
                        !.began = {[origin |-> dlq.list[k].origin,
                                    retry_count |-> Unmarshal(dlq.list[k].data).retry_count] :
                                   k \in 1..Len(dlq.list)},
                        !.tried = <<>>, !.fresh = dlq.fresh, !.ended = FALSE]
    /\ UNCHANGED <<dlq, crawlVars, published, hubVars, clientVars, taskVars>>

\* the PageBatch that RetryFailedBatches builds from a dequeued record
RetryBatch(rec) ==
    [NoBatch EXCEPT !.request_id = rec.request_id, !.main_url = rec.main_url,
                    !.batch_num = rec.batch_num, !.pages = rec.pages,
                    !.is_complete = TRUE]

\* the loop of RetryFailedBatches: Dequeue; nil ends the pass, otherwise SendBatch
\* is called with the record's batch
RetryDequeue ==
    /\ dw.pc = "loop"
    /\ dlq' = AfterDequeue(dlq)
    /\ IF Dequeues(dlq)
       THEN /\ dw' = [dw EXCEPT !.pc = "sending", !.cur = Dequeued(dlq),
                                !.out = DequeueResult(dlq),
                                !.tried = Append(@, Dequeued(dlq).origin)]
            /\ sends' = [sends EXCEPT ![DlqSender] =
                           SendBatchCall(RetryBatch(Unmarshal(Dequeued(dlq).data)))]
       ELSE /\ dw' = [dw EXCEPT !.pc = "idle", !.out = DequeueResult(dlq),
                                !.ended = TRUE]
            /\ UNCHANGED sends
    /\ UNCHANGED <<crawlVars, published, hubVars, analyzer, acHub, taskVars>>

\* err.Error()
ErrorText(err) ==
    <<err.kind>> \o (IF err.resp.neterr # "" THEN <<err.resp.neterr>> ELSE err.resp.body)

RetryCountKept(n) == n

\* batch.RetryCount++
RetryCountNext(n) == n + 1

BelowCapInclusive(n) == n <= 5

\* batch.RetryCount < 5
BelowCap(n) == n < 5

RedeliveredNever(err) == FALSE

\* err = ac.SendBatch(pageBatch) is nil
Redelivered(err) == err = NilErr

\* SendBatch returned: on success the record is dropped; on failure its counter,
\* error and timestamp are updated and it is enqueued again if below the cap
RetryResult ==
    /\ dw.pc = "sending"
    /\ sends[DlqSender].pc = "returned"
    /\ sends' = [sends EXCEPT ![DlqSender] = NoSend]
    /\ dw' = [dw EXCEPT !.pc = "loop", !.cur = NoElement]
    /\ LET err == sends[DlqSender].result
           batch == Unmarshal(dw.cur.data)
           again == [batch EXCEPT !.retry_count = RetryCountNext(@), !.error = ErrorText(err),
                                  !.timestamp = @ + 1]
       IN  dlq' = IF Redelivered(err)
                  THEN [dlq EXCEPT !.delivered = @ \cup {dw.cur.origin}]
                  ELSE IF BelowCap(again.retry_count)
                  THEN DlqEnqueue(dlq, again, dw.cur.origin)
                  ELSE [dlq EXCEPT !.dropped = @ \cup {dw.cur.origin}]
    /\ UNCHANGED <<crawlVars, published, hubVars, analyzer, acHub, taskVars>>

(***************************************************************************)
(* Specifications                                                          *)
(***************************************************************************)
Next ==
    \/ \E r \in Requests : HandleFetchReject(r)
    \/ \E r \in Requests : HandleFetch(r)
    \/ \E r \in Requests : StartCrawl(r)
    \/ \E r \in Requests : StartCrawlComplete(r)
    \/ \E r \in Requests : HandleFetchReturn(r)
    \/ \E sl \in Slots : SeedStart(sl)
    \/ \E sl \in Slots : SeedReject(sl)
    \/ \E sl \in Slots : SeedError(sl)
    \/ \E sl \in Slots : SeedBegin(sl)
    \/ \E sl \in Slots : SeedDrain(sl)
    \/ \E sl \in Slots : SeedComplete(sl)
    \/ \E sl \in Slots, w \in Workers : WorkerReceive(sl, w)
    \/ \E sl \in Slots, w \in Workers : WorkerRangeEnd(sl, w)
    \/ \E sl \in Slots, w \in Workers : WorkerFetch(sl, w)
    \/ \E sl \in Slots, w \in Workers : WorkerCount(sl, w)
    \/ \E sl \in Slots, w \in Workers : WorkerProgress(sl, w)
    \/ \E sl \in Slots, w \in Workers : WorkerLimit(sl, w)
    \/ \E sl \in Slots, w \in Workers : WorkerExtract(sl, w)
    \/ \E sl \in Slots, w \in Workers : WorkerEnqueue(sl, w)
    \/ \E sl \in Slots, w \in Workers : WorkerDone(sl, w)

Spec == Init /\ [][Next]_vars

\* several requests under the concurrency cap; a goroutine that can take a step
\* is eventually scheduled
SpecOrchFair == InitOrch /\ [][Next]_vars /\ WF_vars(Next)

NextHub ==
    \/ \E s \in SubIds, r \in 0..2 : Subscribe(s, RequestID(r))
    \/ \E s \in SubIds : Unsubscribe(s)
    \/ \E s \in SubIds : Receive(s)
    \/ \E p \in PubIds : PublishBegin(p, p)
    \/ \E p \in PubIds, s \in SubIds : PublishSend(p, s)
    \/ \E p \in PubIds : PublishRequest(p)
    \/ \E p \in PubIds : PublishEnd(p)

SpecHub == InitHubOnly /\ [][NextHub]_vars

\* the hub with no subscriber and no event yet
InitHubEmpty ==
    /\ cfg = [maxPages |-> 1, perSeedWorkers |-> 1,
              progressEveryN |-> ProgressEveryN, maxConcurrent |-> 1, batchSize |-> BatchCap]
    /\ web = ChainSite
    /\ urls = [r \in Requests |-> <<>>]
    /\ InitIdle
    /\ InitHub
    /\ analyzer = Accepting
    /\ InitClient
    /\ InitNoQueue

\* the hub as its callers may use it: the first publisher's events have no
\* request id, the second's have the first request's; Unsubscribe may be called
\* again for a closed handle
NextHubAny ==
    \/ \E s \in SubIds, r \in 0..1 : Subscribe(s, RequestID(r))
    \/ \E s \in SubIds : Unsubscribe(s)
    \/ \E s \in SubIds : UnsubscribeAgain(s)
    \/ \E s \in SubIds : Receive(s)
    \/ \E p \in PubIds : PublishBegin(p, p - 1)
    \/ \E p \in PubIds, s \in SubIds : PublishSend(p, s)
    \/ \E p \in PubIds : PublishRequest(p)
    \/ \E p \in PubIds : PublishEnd(p)

SpecHubAny == InitHubEmpty /\ [][NextHubAny]_vars

\* one accepted request with one seed: the page caps, the worker pools and the
\* progress intervals of a crawl of a small site
InitSeedSmall ==
    /\ \E m \in 1..MaxPagesCap, n \in {1, ProgressEveryN} :
          cfg = [maxPages |-> m, perSeedWorkers |-> NumWorkers,
                 progressEveryN |-> n, maxConcurrent |-> 1, batchSize |-> BatchCap]
    /\ web \in {CycleSite, FanSite}
    /\ urls = [r \in Requests |-> IF r = 1 THEN <<SeedSite>> ELSE <<>>]
    /\ InitIdle
    /\ InitHub
    /\ analyzer = Accepting
    /\ InitClient
    /\ InitNoQueue

\* the slot of the seed crawl below
WideSlot == <<1, 1>>

\* the links of the seed page of WideSite, as the worker extracted them
WideLinks == ExtractSameDomainLinks(FetchPage(SeedSite), SeedSite)

\* a crawl of WideSite with one worker and a page cap above the capacity of
\* urlQueue plus the worker: the worker has fetched the seed page and enqueued
\* all its links but the last two
InitSeedWide ==
    /\ cfg = [maxPages |-> QueueCap + 2, perSeedWorkers |-> 1,
              progressEveryN |-> ProgressEveryN, maxConcurrent |-> 1, batchSize |-> BatchCap]
    /\ web = WideSite
    /\ urls = [r \in Requests |-> IF r = 1 THEN <<SeedSite>> ELSE <<>>]
    /\ hpc = [r \in Requests |-> IF r = 1 THEN "running" ELSE "idle"]
    /\ semaphore = 1
    /\ activeRequests = {1}
    /\ reqWg = [r \in Requests |-> IF r = 1 THEN 1 ELSE 0]
    /\ spc = [sl \in Slots |-> IF sl = WideSlot THEN "crawling" ELSE "none"]
    /\ LET sent == SubSeq(WideLinks, 1, QueueCap - 1)
       IN /\ cs = [sl \in Slots |->
                     IF sl = WideSlot
                     THEN [NewCrawlState(SeedSite) EXCEPT
                              !.visited = {SeedSite} \cup {sent[i] : i \in 1..Len(sent)},
                              !.pages = <<FetchPage(SeedSite)>>,
                              !.processed = 1,
                              !.enqueued = 1 + Len(sent),
                              !.urlQueue = sent,
                              !.wg = 1 + Len(sent),
                              !.pushed = <<SeedSite>> \o sent]
                     ELSE NoCrawl]
          /\ wk = [sl \in Slots |-> [w \in Workers |->
                     IF sl = WideSlot /\ w = 1
                     THEN [pc |-> "enqueue", u |-> SeedSite, page |-> FetchPage(SeedSite),
                           links |-> SubSeq(WideLinks, QueueCap, WideFan),
                           done |-> 1, total |-> 1]
                     ELSE IdleWorker]]
    /\ batches = <<>>
    /\ published = [id \in HubKeys |->
                      IF id = RequestID(1)
                      THEN <<Event("start", 1, SeedSite, 0, 0, 1)>> ELSE <<>>]
    /\ requestCh = [id \in HubKeys |-> {}]
    /\ subs = [s \in SubIds |-> FreeSub]
    /\ pubs = [p \in PubIds |-> IdlePub]
    /\ analyzer = Accepting
    /\ InitClient
    /\ InitNoQueue

InitSeed == InitSeedSmall \/ InitSeedWide

\* the crawl of a seed with enqueue taken statement by statement
NextSeed ==
    \/ \E r \in Requests : HandleFetch(r)
    \/ \E r \in Requests : StartCrawl(r)
    \/ \E r \in Requests : StartCrawlComplete(r)
    \/ \E r \in Requests : HandleFetchReturn(r)
    \/ \E sl \in Slots : SeedStart(sl)
    \/ \E sl \in Slots : SeedBegin(sl)
    \/ \E sl \in Slots : SeedDrain(sl)
    \/ \E sl \in Slots : SeedComplete(sl)
    \/ \E sl \in Slots, w \in Workers : WorkerReceive(sl, w)
    \/ \E sl \in Slots, w \in Workers : WorkerRangeEnd(sl, w)
    \/ \E sl \in Slots, w \in Workers : WorkerFetch(sl, w)
    \/ \E sl \in Slots, w \in Workers : WorkerCount(sl, w)
    \/ \E sl \in Slots, w \in Workers : WorkerProgress(sl, w)
    \/ \E sl \in Slots, w \in Workers : WorkerLimit(sl, w)
    \/ \E sl \in Slots, w \in Workers : WorkerExtract(sl, w)
    \/ \E sl \in Slots, w \in Workers : WorkerLock(sl, w)
    \/ \E sl \in Slots, w \in Workers : WorkerVisit(sl, w)
    \/ \E sl \in Slots, w \in Workers : WorkerAdd(sl, w)
    \/ \E sl \in Slots, w \in Workers : WorkerSend(sl, w)
    \/ \E sl \in Slots, w \in Workers : WorkerDone(sl, w)

SpecSeed == InitSeed /\ [][NextSeed]_vars

(***************************************************************************)
(* The crawl that sends a batch whenever batchSize pages are collected     *)
(***************************************************************************)
\* PageBatch built by flushBatchUnsafe
BatchOf(sl, c, isComplete) ==
    [NoBatch EXCEPT !.request_id = RequestID(sl[1]), !.main_url = c.mainURL,
                    !.batch_num = c.batchNum + 1, !.pages = c.currentBatch,
                    !.is_complete = isComplete, !.seed = sl[2]]

\* st.flushBatchUnsafe(isComplete): the crawl state after it and the batches
\* handed to sendBatchToAnalyzer
flushBatchUnsafe(sl, c, isComplete) ==
    IF Len(c.currentBatch) = 0
    THEN [st |-> c, sent |-> <<>>]
    ELSE [st |-> [c EXCEPT !.batchNum = @ + 1, !.currentBatch = <<>>],
          sent |-> <<BatchOf(sl, c, isComplete)>>]

\* st.addToBatch(pc)
addToBatch(sl, c, pc) ==
    LET added == [c EXCEPT !.currentBatch = Append(@, pc)]
    IN IF Len(added.currentBatch) >= cfg.batchSize
       THEN flushBatchUnsafe(sl, added, FALSE)
       ELSE [st |-> added, sent |-> <<>>]

\* pc := fetchPage(u); st.addToBatch(pc)
BatchedFetch(sl, w) ==
    /\ wk[sl][w].pc = "fetch"
    /\ wk' = [wk EXCEPT ![sl][w].pc = "count", ![sl][w].page = FetchPage(wk[sl][w].u)]
    /\ LET r == addToBatch(sl, cs[sl], FetchPage(wk[sl][w].u))
       IN /\ cs' = [cs EXCEPT ![sl] = r.st]
          /\ batches' = batches \o r.sent
    /\ UNCHANGED <<cfg, web, urls, hpc, semaphore, activeRequests, reqWg, spc, published>>
    /\ UNCHANGED hubVars
    /\ UNCHANGED <<clientVars, dlqVars, taskVars>>

\* wg.Wait() returns; close(urlQueue); st.flushBatch(true)
BatchedDrain(sl) ==
    /\ spc[sl] = "crawling"
    /\ cs[sl].wg = 0
    /\ LET r == flushBatchUnsafe(sl, cs[sl], TRUE)
       IN /\ cs' = [cs EXCEPT ![sl] = [r.st EXCEPT !.closed = TRUE]]
          /\ batches' = batches \o r.sent
    /\ spc' = [spc EXCEPT ![sl] = "sent"]
    /\ UNCHANGED <<cfg, web, urls, hpc, semaphore, activeRequests, reqWg, wk, published>>
    /\ UNCHANGED hubVars
    /\ UNCHANGED <<clientVars, dlqVars, taskVars>>

\* one accepted request with one seed: the batch sizes and page caps of a crawl
\* of a small site
InitBatched ==
    /\ \E m \in 1..MaxPagesCap, b \in 1..BatchCap :
          cfg = [maxPages |-> m, perSeedWorkers |-> NumWorkers,
                 progressEveryN |-> ProgressEveryN, maxConcurrent |-> 1,
                 batchSize |-> b]
    /\ web \in {ChainSite, FanSite}
    /\ \E seed \in {SeedSite, SeedNoHost} :
          urls = [r \in Requests |-> IF r = 1 THEN <<seed>> ELSE <<>>]
    /\ InitIdle
    /\ InitHub
    /\ analyzer = Accepting
    /\ InitClient
    /\ InitNoQueue

NextBatched ==
    \/ \E r \in Requests : HandleFetch(r)
    \/ \E r \in Requests : StartCrawl(r)
    \/ \E r \in Requests : StartCrawlComplete(r)
    \/ \E r \in Requests : HandleFetchReturn(r)
    \/ \E sl \in Slots : SeedStart(sl)
    \/ \E sl \in Slots : SeedReject(sl)
    \/ \E sl \in Slots : SeedBegin(sl)
    \/ \E sl \in Slots : BatchedDrain(sl)
    \/ \E sl \in Slots : SeedComplete(sl)
    \/ \E sl \in Slots, w \in Workers : WorkerReceive(sl, w)
    \/ \E sl \in Slots, w \in Workers : WorkerRangeEnd(sl, w)
    \/ \E sl \in Slots, w \in Workers : BatchedFetch(sl, w)
    \/ \E sl \in Slots, w \in Workers : WorkerCount(sl, w)
    \/ \E sl \in Slots, w \in Workers : WorkerProgress(sl, w)
    \/ \E sl \in Slots, w \in Workers : WorkerLimit(sl, w)
    \/ \E sl \in Slots, w \in Workers : WorkerExtract(sl, w)
    \/ \E sl \in Slots, w \in Workers : WorkerEnqueue(sl, w)
    \/ \E sl \in Slots, w \in Workers : WorkerDone(sl, w)

SpecBatched == InitBatched /\ [][NextBatched]_vars

(***************************************************************************)
(* handleFetch, queueWorker and processCrawlTask of the task worker        *)
(***************************************************************************)
\* fetchPage(target): the body of the page, or the error of client.Get
fetchPage(target) ==
    LET page == web[target.path]
    IN [url |-> target, error |-> page.status = "error",
        hrefs |-> IF page.status = "error" THEN <<>> ELSE page.hrefs]

\* extractSameDomainLinks(html, baseURL): parsed.Host == base.Host
extractSameDomainLinks(page, base) ==
    LET Kept(href) == ~ParseFails(href) /\ href.kind # "empty"
                         /\ HostOf(Resolve(base, href)) = HostOf(base)
        kept == SelectSeq(page.hrefs, Kept)
    IN [i \in 1..Len(kept) |-> Resolve(base, kept[i])]

\* handleFetch: the task is stored with status "queued" and its queue key is made
handleFetch(t) ==
    /\ store.tasks[t] = NoTask
    /\ store' = [store EXCEPT !.tasks[t] = [NoTask EXCEPT !.id = t, !.main_url = SeedSite,
                                                         !.status = "queued"],
                              !.keys = @ \cup {t}]
    /\ UNCHANGED tw
    /\ UNCHANGED <<crawlVars, published, hubVars, clientVars, dlqVars>>

\* one scan of queueWorker: go processCrawlTask(taskID) for every queue key
queueWorker ==
    /\ tw.scans < NumScans
    /\ tw' = [scans |-> tw.scans + 1,
              run |-> [g \in TaskRuns |->
                         IF g[2] = tw.scans + 1 /\ g[1] \in store.keys
                         THEN [IdleRun EXCEPT !.pc = "get"]
                         ELSE tw.run[g]]]
    /\ UNCHANGED store
    /\ UNCHANGED <<crawlVars, published, hubVars, clientVars, dlqVars>>

\* redisConn.Get and json.Unmarshal: the goroutine's copy of the task
TaskGet(g) ==
    /\ tw.run[g].pc = "get"
    /\ tw' = [tw EXCEPT !.run[g].task = store.tasks[g[1]],
                        !.run[g].pc = IF store.tasks[g[1]] = NoTask THEN "returned"
                                      ELSE "check"]
    /\ UNCHANGED store
    /\ UNCHANGED <<crawlVars, published, hubVars, clientVars, dlqVars>>

\* if task.Status != "queued" { return }; task.Status = "processing"; saveTask
TaskClaim(g) ==
    /\ tw.run[g].pc = "check"
    /\ IF tw.run[g].task.status # "queued"
       THEN /\ tw' = [tw EXCEPT !.run[g].pc = "returned"]
            /\ UNCHANGED store
       ELSE LET task == [tw.run[g].task EXCEPT !.status = "processing"]
            IN /\ tw' = [tw EXCEPT !.run[g].task = task,
                                   !.run[g].queue = <<task.main_url>>,
                                   !.run[g].pc = "crawl"]
               /\ store' = [store EXCEPT !.tasks[g[1]] = task]
    /\ UNCHANGED <<crawlVars, published, hubVars, clientVars, dlqVars>>

\* one round of the loop over queue: the page is fetched, its links are
\* queued and the task is saved, or the url was visited before
TaskVisit(g) ==
    /\ tw.run[g].pc = "crawl"
    /\ tw.run[g].queue # <<>>
    /\ LET run == tw.run[g]
           current == Head(run.queue)
           page == fetchPage(current)
           visited == run.visited \cup {current}
           links == IF page.error THEN <<>>
                    ELSE SelectSeq(extractSameDomainLinks(page, current),
                                   LAMBDA l : l \notin visited)
           results == Append(run.results, page.url)
           task == [run.task EXCEPT !.pages = results, !.total_pages = Len(results)]
       IN IF current \in run.visited
          THEN /\ tw' = [tw EXCEPT !.run[g].queue = Tail(run.queue)]
               /\ UNCHANGED store
          ELSE /\ tw' = [tw EXCEPT !.run[g] = [run EXCEPT !.queue = Tail(run.queue) \o links,
                                                          !.visited = visited,
                                                          !.results = results,
                                                          !.task = task]]
               /\ store' = [store EXCEPT !.tasks[g[1]] = task]
    /\ UNCHANGED <<crawlVars, published, hubVars, clientVars, dlqVars>>

\* the loop has ended: task.Status = "completed"; saveTask; sendToAnalyzer
TaskComplete(g) ==
    /\ tw.run[g].pc = "crawl"
    /\ tw.run[g].queue = <<>>
    /\ LET task == [tw.run[g].task EXCEPT !.status = "completed"]
       IN /\ tw' = [tw EXCEPT !.run[g].task = task, !.run[g].pc = "done"]
          /\ store' = [store EXCEPT !.tasks[g[1]] = task]
    /\ UNCHANGED <<crawlVars, published, hubVars, clientVars, dlqVars>>

\* the task worker in front of a small site, nothing queued yet
InitTask ==
    /\ cfg = [maxPages |-> MaxPagesCap, perSeedWorkers |-> NumWorkers,
              progressEveryN |-> ProgressEveryN, maxConcurrent |-> 1, batchSize |-> BatchCap]
    /\ web \in {ChainSite, CycleSite, OddSite}
    /\ urls = [r \in Requests |-> <<>>]
    /\ InitIdle
    /\ InitHub
    /\ analyzer = Accepting
    /\ InitClient
    /\ InitNoQueue

NextTask ==
    \/ \E t \in Tasks : handleFetch(t)
    \/ queueWorker
    \/ \E g \in TaskRuns : TaskGet(g)
    \/ \E g \in TaskRuns : TaskClaim(g)
    \/ \E g \in TaskRuns : TaskVisit(g)
    \/ \E g \in TaskRuns : TaskComplete(g)

SpecTask == InitTask /\ [][NextTask]_vars

\* a crawl of one seed followed by the delivery of its batch
InitSend ==
    /\ \E m \in 1..2, seed \in {SeedSite, SeedNoHost} :
          /\ cfg = [maxPages |-> m, perSeedWorkers |-> NumWorkers,
                    progressEveryN |-> ProgressEveryN, maxConcurrent |-> 1, batchSize |-> BatchCap]
          /\ urls = [r \in Requests |-> IF r = 1 THEN <<seed>> ELSE <<>>]
    /\ web = ChainSite
    /\ InitIdle
    /\ InitHub
    /\ analyzer \in {AlwaysFails, Flaky, Mixed}
    /\ InitClient
    /\ InitNoQueue

\* a request with two seeds and an analyzer that fails every delivery attempt or
\* some of them: two valid seeds of one page and one worker each, or a valid
\* seed of two pages with the full worker pool and a seed without host
InitSendTwo ==
    /\ \E second \in {SeedUpper, SeedNoHost} :
          /\ cfg = [maxPages |-> IF second = SeedUpper THEN 1 ELSE 2,
                    perSeedWorkers |-> IF second = SeedUpper THEN 1 ELSE NumWorkers,
                    progressEveryN |-> ProgressEveryN, maxConcurrent |-> 1, batchSize |-> BatchCap]
          /\ urls = [r \in Requests |-> IF r = 1 THEN <<SeedSite, second>> ELSE <<>>]
    /\ web = ChainSite
    /\ InitIdle
    /\ InitHub
    /\ analyzer \in {AlwaysFails, Flaky}
    /\ InitClient
    /\ InitNoQueue

NextSend ==
    \/ Next
    \/ \E j \in Senders : SendAttempt(j)
    \/ \E j \in Senders : SendBackoff(j)
    \/ \E j \in Senders : SendGiveUp(j)
    \/ \E sl \in Slots : DeliveryDone(sl)

SpecSend == InitSend /\ [][NextSend]_vars

\* two seeds of one request and the delivery of their batches; every goroutine
\* that can take a step eventually takes one
SpecSendFair == InitSendTwo /\ [][NextSend]_vars /\ WF_vars(NextSend)

\* the dead letter queue with its callers and the analyzer client; the queue was
\* created with or without a store client
InitDlq ==
    /\ cfg = [maxPages |-> 1, perSeedWorkers |-> 1,
              progressEveryN |-> ProgressEveryN, maxConcurrent |-> 1, batchSize |-> BatchCap]
    /\ web = ChainSite
    /\ urls = [r \in Requests |-> <<>>]
    /\ InitIdle
    /\ InitHub
    /\ analyzer \in {AlwaysFails, Flaky, Accepting, Garbled}
    /\ InitClient
    /\ \E client \in BOOLEAN : dlq = NewDeadLetterQueue(client)
    /\ dw = IdleQueueUser
    /\ InitNoTasks

NextDlq ==
    \/ \E r \in Requests : UserEnqueue(r)
    \/ UserDequeue
    \/ UserLength
    \/ RetryStart
    \/ RetryDequeue
    \/ RetryResult
    \/ \E j \in Senders : SendAttempt(j)
    \/ \E j \in Senders : SendBackoff(j)
    \/ \E j \in Senders : SendGiveUp(j)

SpecDlq == InitDlq /\ [][NextDlq]_vars

\* a step of the goroutine inside RetryFailedBatches, SendBatch included
RetryStep ==
    \/ RetryDequeue
    \/ RetryResult
    \/ SendAttempt(DlqSender)
    \/ SendBackoff(DlqSender)
    \/ SendGiveUp(DlqSender)

\* the dead letter queue where the goroutine inside RetryFailedBatches keeps
\* running: the store answers, SendBatch returns, the backoff sleeps end
SpecDlqFair == InitDlq /\ [][NextDlq]_vars /\ WF_vars(RetryStep)

(***************************************************************************)
(* Properties of the crawl                                                 *)
(***************************************************************************)
Log(r) == published[RequestID(r)]

\* positions in request r's event log of the events of type t from seed goroutine i
EventsAt(r, t, i) == {k \in 1..Len(Log(r)) : Log(r)[k].type = t /\ Log(r)[k].seed = i}

\* positions of all events from seed goroutine i
SeedEventsAt(r, i) == {k \in 1..Len(Log(r)) : Log(r)[k].seed = i}

Range(q) == {q[k] : k \in 1..Len(q)}

NonBlankSeeds(r) == {i \in 1..Len(urls[r]) : ~IsBlank(urls[r][i])}

\* the normalized same-host links of the page served at u, as crawl c would push them
LinksOf(c, u) ==
    LET page == FetchPage(u)
    IN IF page.status = "html"
       THEN {l \in {NormalizeURL(c.mainURL, h) : h \in Range(ExtractSameDomainLinks(page, u))} :
                Navigable(c, l)}
       ELSE {}

RECURSIVE Closure(_, _)
Closure(c, S) ==
    LET T == S \cup UNION {LinksOf(c, u) : u \in S}
    IN IF T = S THEN S ELSE Closure(c, T)

\* the pages reachable from the seed over same-host links
ReachablePages(c) == Closure(c, {NormalizeURL(c.mainURL, c.mainURL)})

\* CrawlOneSeed has crawled and left its worker loop behind
CrawlOver(sl) == spc[sl] \in {"sent", "done"} /\ cs[sl].visited # {}

\* C1: in every reachable state, for every seed crawl, the visited set holds at
\* most MaxPagesPerSeed URLs, whatever the link graph (chains, cycles, fans).
C1_VisitedBounded ==
    \A sl \in Slots : Cardinality(cs[sl].visited) <= cfg.maxPages

\* a worker is about to enqueue a fresh same-host link of a cyclic site while the
\* visited set is at the cap
C1_Witness ==
    \E sl \in Slots, w \in Workers :
        /\ web = CycleSite
        /\ wk[sl][w].pc = "enqueue"
        /\ wk[sl][w].links # <<>>
        /\ cfg.maxPages >= 2
        /\ Cardinality(cs[sl].visited) = cfg.maxPages
        /\ LET link == NormalizeURL(cs[sl].mainURL, Head(wk[sl][w].links))
           IN Navigable(cs[sl], link) /\ link \notin cs[sl].visited

\* C2: within one seed crawl no normalized URL is pushed onto the link queue more
\* than once, also when two workers are inside enqueue with the same link.
C2_NoDuplicatePush ==
    \A sl \in Slots :
        \A j, k \in 1..Len(cs[sl].pushed) :
            j # k => cs[sl].pushed[j] # cs[sl].pushed[k]

\* two workers are both about to enqueue the same link, not visited yet, with
\* capacity left
C2_Witness ==
    \E sl \in Slots, v, w \in Workers :
        /\ v # w
        /\ wk[sl][v].pc = "enqueue" /\ wk[sl][v].links # <<>>
        /\ wk[sl][w].pc = "enqueue" /\ wk[sl][w].links # <<>>
        /\ LET a == NormalizeURL(cs[sl].mainURL, Head(wk[sl][v].links))
               b == NormalizeURL(cs[sl].mainURL, Head(wk[sl][w].links))
           IN a = b /\ Admits(cs[sl], Head(wk[sl][v].links))

\* C3: a seed crawl never fetches more than MaxPagesPerSeed pages; when more pages
\* are reachable than the cap, the finished crawl has fetched exactly
\* MaxPagesPerSeed distinct pages and published exactly one limit_reached event, and
\* the other reachable pages were not fetched.
C3_PageCap ==
    \A sl \in Slots :
        LET c == cs[sl]
            fetched == {c.pages[k].url : k \in 1..Len(c.pages)}
        IN /\ Len(c.pages) <= cfg.maxPages
           /\ (CrawlOver(sl) /\ Cardinality(ReachablePages(c)) > cfg.maxPages) =>
                 /\ Len(c.pages) = cfg.maxPages
                 /\ Cardinality(fetched) = cfg.maxPages
                 /\ fetched \subseteq ReachablePages(c)
                 /\ ReachablePages(c) \ fetched # {}
                 /\ Cardinality(EventsAt(sl[1], "limit_reached", sl[2])) = 1

\* the chain / -> /a -> /b -> /c crawled with cap 2: done, 2 pages fetched, /b not
C3_Witness ==
    \E sl \in Slots :
        /\ web = ChainSite
        /\ cfg.maxPages = 2
        /\ spc[sl] = "done"
        /\ Len(cs[sl].pages) = 2
        /\ Abs("site", "/b") \in ReachablePages(cs[sl])
        /\ \A k \in 1..Len(cs[sl].pages) : cs[sl].pages[k].url # Abs("site", "/b")
        /\ EventsAt(sl[1], "limit_reached", sl[2]) # {}

\* the seed crawls inside CrawlOneSeed
InCrawlOneSeed == {sl \in Slots : spc[sl] \in {"crawling", "sent"}}

\* C4: at no time are more seed crawls (CrawlOneSeed executions, over all
\* requests) in progress than the global concurrency limit.
C4_SeedCrawlsBounded == Cardinality(InCrawlOneSeed) <= cfg.maxConcurrent

\* C5: once StartCrawl has returned, the request's log holds exactly one complete
\* event with empty url, it is the last event of the request, every non-blank seed
\* has its terminal event (seed-level complete or error) before it, and blank seeds
\* have no events; before that the log holds no such event.
C5_RequestComplete ==
    \A r \in Requests :
        LET final == EventsAt(r, "complete", 0)
        IN /\ \A k \in final : Log(r)[k].url = EmptyUrl
           /\ \A k \in 1..Len(Log(r)) : Log(r)[k].url = EmptyUrl => k \in final
           /\ hpc[r] \in {"idle", "queued", "running"} => final = {}
           /\ hpc[r] \in {"completed", "done"} =>
                 /\ final = {Len(Log(r))}
                 /\ \A i \in NonBlankSeeds(r) :
                       \E k \in EventsAt(r, "complete", i) \cup EventsAt(r, "error", i) :
                           k < Len(Log(r))
           /\ \A i \in 1..MaxSeeds : i \notin NonBlankSeeds(r) => SeedEventsAt(r, i) = {}

\* a request with a blank and a valid seed, or a valid and an unparsable one, has
\* returned from StartCrawl
C5_Witness ==
    \E r \in Requests :
        /\ hpc[r] = "done"
        /\ Len(urls[r]) = 2
        /\ \E i \in 1..2 : IsBlank(urls[r][i])
        /\ Len(Log(r)) >= 3

\* C6: every non-blank seed publishes exactly one start event, and it precedes the
\* seed's first page fetch and every other event of that seed.
C6_StartFirst ==
    \A sl \in Slots :
        LET r == sl[1]
            i == sl[2]
        IN /\ Cardinality(EventsAt(r, "start", i)) <= 1
           /\ spc[sl] \in {"none", "spawned"} => SeedEventsAt(r, i) = {}
           /\ spc[sl] \notin {"none", "spawned"} =>
                 /\ Cardinality(EventsAt(r, "start", i)) = 1
                 /\ \A k \in SeedEventsAt(r, i) : \A j \in EventsAt(r, "start", i) : j <= k
           /\ cs[sl].pages # <<>> => EventsAt(r, "start", i) # {}

\* a seed has fetched a page and published progress after its start event
C6_Witness ==
    \E sl \in Slots :
        /\ cs[sl].pages # <<>>
        /\ EventsAt(sl[1], "progress", sl[2]) # {}
        /\ spc[sl] = "done"

\* the seed does not parse as a URL, or parses to a URL without host
Unusable(seed) == seed.kind = "bad" \/ seed.host = ""

\* C7: a seed that fails to parse or has no host produces exactly one error event,
\* no page fetch, no batch and no seed-level complete event; every valid seed of
\* the same request has its own seed-level complete event, and no error event,
\* when the request completes.
C7_InvalidSeedIsolated ==
    \A r \in Requests : \A i \in NonBlankSeeds(r) :
        LET sl == <<r, i>>
            errors == EventsAt(r, "error", i)
            completes == EventsAt(r, "complete", i)
            sent == {k \in 1..Len(batches) :
                        batches[k].request_id = RequestID(r) /\ batches[k].seed = i}
            over == hpc[r] \in {"completed", "done"}
        IN IF Unusable(urls[r][i])
           THEN /\ Cardinality(errors) <= 1
                /\ spc[sl] = "done" => Cardinality(errors) = 1
                /\ over => Cardinality(errors) = 1
                /\ cs[sl].pages = <<>> /\ cs[sl].pushed = <<>>
                /\ sent = {}
                /\ completes = {}
           ELSE /\ errors = {}
                /\ Cardinality(completes) <= 1
                /\ Cardinality(sent) <= 1
                /\ over => Cardinality(completes) = 1

\* a request with an unparsable seed and a valid sibling has completed: the
\* sibling crawled its pages
C7_Witness ==
    \E r \in Requests :
        /\ hpc[r] = "done"
        /\ \E i, j \in NonBlankSeeds(r) :
              /\ Unusable(urls[r][i])
              /\ ~Unusable(urls[r][j])
              /\ EventsAt(r, "error", i) # {}
              /\ Len(cs[<<r, j>>].pages) >= 1
              /\ EventsAt(r, "complete", j) # {}

(***************************************************************************)
(* Properties of the event hub                                             *)
(***************************************************************************)
\* what subscriber s has read, followed by what its channel still holds
Stream(s) == subs[s].received \o subs[s].ch

\* goroutine p is inside Publish
Publishing(p) == pubs[p].pc # "idle"

\* C8: a subscriber registered under a non-empty request id only ever holds or
\* reads events of that request id, and a Publish call does not leave the global
\* map before every global subscriber has been offered the event.
C8_RequestIsolation ==
    /\ \A s \in SubIds :
          subs[s].rid # "" =>
              \A k \in 1..Len(Stream(s)) : Stream(s)[k].request_id = subs[s].rid
    /\ \A p \in PubIds :
          /\ pubs[p].pc = "global" => requestCh[""] \subseteq pubs[p].gave \cup pubs[p].todo
          /\ pubs[p].pc = "request" => requestCh[""] \subseteq pubs[p].gave

\* events of R1 and R2 were published; a subscriber under R1 has read an R1 event
\* and a global subscriber has read events of both
C8_Witness ==
    \E s, g \in SubIds :
        /\ subs[s].rid = "R1" /\ subs[s].received # <<>>
        /\ subs[g].state = "open" /\ subs[g].rid = ""
        /\ published["R2"] # <<>>
        /\ \E j, k \in 1..Len(subs[g].received) :
              /\ subs[g].received[j].request_id = "R1"
              /\ subs[g].received[k].request_id = "R2"

\* one send of Publish to subscriber s: dropped exactly when s.ch holds 256
SendRule(p, s) ==
    (s \in pubs[p].todo /\ s \notin pubs'[p].todo) =>
        /\ Len(subs[s].ch) >= 256 => subs'[s].ch = subs[s].ch
        /\ Len(subs[s].ch) < 256 => subs'[s].ch = Append(subs[s].ch, pubs[p].ev)

\* C9: a goroutine inside Publish can always take its next step, whatever the
\* fill level of the channels; a send drops the event exactly when the
\* subscriber's channel holds 256 events and otherwise appends it; before Publish
\* returns every subscriber under "" and under the event's request id has had
\* its send; no channel ever holds more than 256 events.
C9_NonBlockingPublish ==
    /\ [](\A s \in SubIds : Len(subs[s].ch) <= 256)
    /\ [](\A p \in PubIds : Publishing(p) => ENABLED PublishStep(p))
    /\ [](\A p \in PubIds :
            (pubs[p].pc = "request" /\ pubs[p].todo = {}) =>
                requestCh[""] \cup requestCh[pubs[p].ev.request_id] \subseteq pubs[p].gave)
    /\ [][\A p \in PubIds, s \in SubIds : SendRule(p, s)]_vars

\* the slow subscriber's channel holds 256 events and the event being published
\* was dropped for it, while another subscriber got it
C9_Witness ==
    \E p \in PubIds, s, t \in SubIds :
        /\ s # t
        /\ Publishing(p)
        /\ {s, t} \subseteq pubs[p].gave
        /\ Len(subs[s].ch) = 256
        /\ \A k \in 1..Len(subs[s].ch) : subs[s].ch[k] # pubs[p].ev
        /\ \E k \in 1..Len(subs[t].ch) : subs[t].ch[k] = pubs[p].ev

\* the events of publishing goroutine p within q
EventsOf(p, q) == SelectSeq(q, LAMBDA e : e.seed = p)

\* the events of each publishing goroutine appear in publication order
InOrder(q) ==
    \A p \in PubIds :
        LET mine == EventsOf(p, q)
        IN  \A j, k \in 1..Len(mine) : j < k => mine[j].done <= mine[k].done

\* a step keeps subscriber s's stream, or appends the event being sent
StreamRule(s) ==
    \/ subs[s].state = "free"
    \/ subs'[s].received \o subs'[s].ch = Stream(s)
    \/ \E p \in PubIds : subs'[s].received \o subs'[s].ch = Append(Stream(s), pubs[p].ev)

\* C10: for each subscriber, what it has read followed by what its channel holds
\* only ever grows at the end, by the event being sent, so the events read are a
\* prefix of the events accepted in acceptance order; two events of one publisher
\* are never read in the opposite order.
C10_SubscriberFifo ==
    /\ [](\A s \in SubIds : InOrder(Stream(s)))
    /\ [][\A s \in SubIds : StreamRule(s)]_vars

\* a subscriber has read two events of the same publisher
C10_Witness ==
    \E s \in SubIds :
        /\ Len(subs[s].received) >= 2
        /\ subs[s].received[1].seed = subs[s].received[2].seed
        /\ subs[s].received[1].seed # 0
        /\ subs[s].received[1].done < subs[s].received[2].done

\* C11: once Unsubscribe has run for a handle, the handle is in no map of the
\* registry, no Publish in flight has it among the subscribers still to visit,
\* its channel never changes again, and every send of Publish goes to a handle
\* whose channel is open.
C11_UnsubscribeFinal ==
    /\ [](\A s \in SubIds :
            subs[s].state = "closed" =>
                /\ \A id \in HubKeys : s \notin requestCh[id]
                /\ \A p \in PubIds : s \notin pubs[p].todo)
    /\ [][\A s \in SubIds :
            /\ subs[s].state = "closed" => subs'[s] = subs[s]
            /\ \A p \in PubIds :
                  (s \in pubs[p].todo /\ s \notin pubs'[p].todo) => subs[s].state = "open"]_vars

\* a handle under some request id was closed, and a later Publish for that
\* request id has visited another handle of the same id but not the closed one
C11_Witness ==
    \E p \in PubIds, s, t \in SubIds :
        /\ subs[s].state = "closed" /\ subs[t].state = "open"
        /\ subs[s].rid = subs[t].rid /\ subs[s].rid = pubs[p].ev.request_id
        /\ pubs[p].pc = "request" /\ pubs[p].todo = {}
        /\ t \in pubs[p].gave /\ s \notin pubs[p].gave
        /\ \E k \in 1..Len(subs[t].ch) : subs[t].ch[k] = pubs[p].ev

(***************************************************************************)
(* Properties of the analyzer client                                       *)
(***************************************************************************)
\* the response is an HTTP response with a status in 200..299
Delivered(resp) == resp.neterr = "" /\ resp.status >= 200 /\ resp.status <= 299

\* the attempts of a call that failed
FailedTries(job) == {k \in 1..Len(job.tries) : ~Delivered(job.tries[k])}

\* SendBatch has returned to its caller
Returned(job) == job.pc \in {"returned", "done"}

C13_Backoff ==
    \A j \in Senders :
        LET job == sends[j]
            w == Len(job.waits)
        IN  /\ w <= 3
            /\ \A i \in 1..w : job.waits[i] = 2 * (2 ^ (i - 1))
            /\ \A i \in 1..(w - 1) : job.waits[i] <= job.waits[i + 1]
            /\ w = (IF Cardinality(FailedTries(job)) = 4 THEN 3
                    ELSE Cardinality(FailedTries(job)))
            /\ (Len(job.tries) >= 3
                /\ job.tries[1] = Status(503) /\ job.tries[2] = Status(503)
                /\ job.tries[3] = Status(202)) =>
                  /\ Returned(job) /\ job.result = NilErr
                  /\ Len(job.tries) = 3
                  /\ job.waits = <<2, 4>>

\* the analyzer answered 503, 503, 202 and the call returned after waits of 2s and 4s
C13_Witness ==
    \E j \in Senders :
        /\ Returned(sends[j])
        /\ sends[j].tries = <<Status(503), Status(503), Status(202)>>
        /\ sends[j].waits = <<2, 4>>

\* C14: an attempt ends the call with success exactly when the response it got is
\* an HTTP response with a status in 200..299; any other status and any
\* transport error leaves the call failed or retrying.
C14_AttemptSuccess ==
    [][\A j \in Senders :
          Len(sends'[j].tries) = Len(sends[j].tries) + 1 =>
              LET resp == sends'[j].tries[Len(sends'[j].tries)]
              IN  /\ Delivered(resp) <=> (sends'[j].pc = "returned" /\ sends'[j].result = NilErr)
                  /\ ~Delivered(resp) <=>
                        (sends'[j].pc \in {"backoff", "exhausted"}
                         /\ sends'[j].lastErr # NilErr /\ sends'[j].lastErr.resp = resp)]_vars

\* attempts answered 101, 304, a transport error and then 299
C14_Witness ==
    \E j \in Senders :
        /\ sends[j].tries = <<Status(101), Status(304), NetErr("connection refused"), Status(299)>>
        /\ Returned(sends[j]) /\ sends[j].result = NilErr

\* the batch_delivery_failed events published for request id
FailureEvents(id) ==
    {k \in 1..Len(published[id]) : published[id][k].type = "batch_delivery_failed"}

\* C15: a returned call whose attempts all failed has published exactly one
\* batch_delivery_failed event under its batch's request id and returned an
\* error; a call with a successful attempt has published none.
C15_FailureEvent ==
    \A j \in Senders :
        Returned(sends[j]) =>
            LET id == sends[j].batch.request_id
            IN  IF \E k \in 1..Len(sends[j].tries) : Delivered(sends[j].tries[k])
                THEN FailureEvents(id) = {}
                ELSE sends[j].result # NilErr /\ Cardinality(FailureEvents(id)) = 1

\* C16: once the goroutine that sent a seed's batch has ended after SendBatch
\* returned an error, the dead letter queue holds a record of that batch with
\* retry_count = 0.
C16_HandedToDeadLetterQueue ==
    \A sl \in Slots :
        (sends[sl].pc = "done" /\ sends[sl].result # NilErr) =>
            \E k \in 1..Len(dlq.list) :
                /\ dlq.list[k].request_id = sends[sl].batch.request_id
                /\ dlq.list[k].main_url = sends[sl].batch.main_url
                /\ dlq.list[k].retry_count = 0

(***************************************************************************)
(* Properties of the dead letter queue                                     *)
(***************************************************************************)
\* the records in the store, as Dequeue would return them
Stored == {Unmarshal(dlq.list[k].data) : k \in 1..Len(dlq.list)}

\* RetryFailedBatches handles the result of a failed redelivery in this step
RedeliveryFailed ==
    dw.pc = "sending" /\ dw'.pc = "loop" /\ sends[DlqSender].result # NilErr

\* C17: every stored record has retry_count below 5; a failed redelivery either
\* pushes the record back with retry_count raised by exactly 1, when that value
\* is below 5, or leaves the list as it is and drops the record; a dropped record
\* is never in the store again.
C17_RetryCountCapped ==
    /\ [](\A rec \in Stored : rec.retry_count < 5)
    /\ [](\A k \in 1..Len(dlq.list) : dlq.list[k].origin \notin dlq.dropped)
    /\ [][RedeliveryFailed =>
            LET was == Unmarshal(dw.cur.data).retry_count
            IN  IF was + 1 < 5
                THEN /\ Len(dlq'.list) = Len(dlq.list) + 1
                     /\ Unmarshal(dlq'.list[1].data).retry_count = was + 1
                     /\ dlq'.list[1].origin = dw.cur.origin
                     /\ dlq'.dropped = dlq.dropped
                ELSE /\ dlq'.list = dlq.list
                     /\ dw.cur.origin \in dlq'.dropped]_vars

\* a record failed its fifth redelivery and was dropped
C17_Witness ==
    /\ dlq.dropped # {}
    /\ dw.pc = "loop"

C19_RoundTrip ==
    (/\ dw.out.op = "Dequeue" /\ dw.out.found
     /\ dw.out.elem.onEmpty /\ dw.out.ids = {dw.out.elem.ticket}) =>
        /\ dw.out.rec = dw.out.elem.orig
        /\ dw.out.left = 0

BuiltBy(b) == <<RequestOf(b.request_id), b.seed>>

\* the pages of a list with no error and a non-empty body
WithBody(pages) == {i \in 1..Len(pages) : pages[i].status \in {"html", "other"}}

\* C21: every batch built from a page list that was packaged without error has
\* one metadata entry per page in page order; successful counts the pages with
\* no error and a non-empty body, each with a file name and has_html; failed
\* counts the other pages, each without file name and has_html false; and
\* successful + failed = len(metadata) = total_pages.
C21_ArchiveAccounting ==
    \A k \in 1..Len(batches) :
        LET b == batches[k]
            pages == cs[BuiltBy(b)].pages
            good == WithBody(pages)
        IN /\ Len(b.metadata) = Len(pages)
           /\ \A i \in 1..Len(pages) :
                 /\ b.metadata[i].url = pages[i].url
                 /\ b.metadata[i].has_html <=> i \in good
                 /\ b.metadata[i].file_name # NoFileName <=> i \in good
                 /\ \A j \in 1..Len(pages) :
                       (i # j /\ i \in good /\ j \in good) =>
                           b.metadata[i].file_name # b.metadata[j].file_name
           /\ b.stats.successful = Cardinality(good)
           /\ b.stats.failed = Len(pages) - Cardinality(good)
           /\ b.stats.successful + b.stats.failed = Len(b.metadata)
           /\ Len(b.metadata) = b.total_pages
           /\ Len(b.archive) = b.stats.successful

\* a batch of three pages: one packaged, one with an empty body, one that failed
C21_Witness ==
    \E k \in 1..Len(batches) :
        LET pages == cs[BuiltBy(batches[k])].pages
        IN /\ batches[k].stats.successful = 1
           /\ batches[k].stats.failed = 2
           /\ \E i, j \in 1..Len(pages) :
                 pages[i].status = "empty" /\ pages[j].status = "error"

\* the batches built by a seed crawl
BatchesOf(sl) ==
    {k \in 1..Len(batches) :
        batches[k].request_id = RequestID(sl[1]) /\ batches[k].seed = sl[2]}

\* the seeds of a request that CrawlOneSeed accepts
ValidSeeds(r) ==
    {sl \in SlotsOf(r) : /\ sl[2] <= Len(urls[r])
                         /\ urls[r][sl[2]].kind = "abs"
                         /\ urls[r][sl[2]].host # ""}

\* the request is over: every valid seed published its complete event and had
\* its batch handed to SendBatch, and the request-level complete event is out
RequestOver(r) ==
    /\ EventsAt(r, "complete", 0) # {}
    /\ \A sl \in ValidSeeds(r) :
          /\ EventsAt(r, "complete", sl[2]) # {}
          /\ \A k \in BatchesOf(sl) :
                sends[sl].pc # "none" /\ sends[sl].batch = batches[k]

\* C22: whatever the delivery attempts of the batches return, an accepted
\* request goes on until every valid seed has published its seed-level complete
\* event, every seed's batch has been handed to SendBatch, and the request-level
\* complete event has been published.
C22_DeliveryIsolated ==
    \A r \in Requests : (hpc[r] = "queued") ~> RequestOver(r)

\* a request with two valid seeds is over and the delivery of both batches has
\* failed for good
C22_Witness ==
    /\ Cardinality(ValidSeeds(1)) = 2
    /\ RequestOver(1)
    /\ \A sl \in ValidSeeds(1) : BatchesOf(sl) # {}
    /\ \A sl \in ValidSeeds(1) : sends[sl].pc = "done" /\ sends[sl].result # NilErr

\* the submission was accepted and its StartCrawl has not returned
InFlight(r) == hpc[r] \in {"queued", "running", "completed"}

\* C23: the active-request registry lists a request exactly from its acceptance,
\* the wait for a concurrency slot included, until its StartCrawl has returned; a
\* submission with an empty url list is never accepted, and a rejected
\* submission adds no entry, starts no seed crawl and publishes nothing.
C23_ActiveRegistry ==
    /\ [](\A r \in Requests :
            /\ InFlight(r) <=> r \in activeRequests
            /\ urls[r] = <<>> => ~InFlight(r) /\ hpc[r] # "done"
            /\ hpc[r] = "rejected" =>
                  /\ \A sl \in SlotsOf(r) : spc[sl] = "none" /\ cs[sl] = NoCrawl
                  /\ published[RequestID(r)] = <<>>
                  /\ reqWg[r] = 0)
    /\ [][\A r \in Requests :
            /\ (hpc[r] = "idle" /\ hpc'[r] = "rejected") =>
                  /\ activeRequests' = activeRequests
                  /\ semaphore' = semaphore
                  /\ spc' = spc
            /\ (hpc[r] = "idle" /\ hpc'[r] = "queued") =>
                  activeRequests' = activeRequests \cup {r}
            /\ (r \in activeRequests /\ r \notin activeRequests') =>
                  hpc[r] = "completed" /\ hpc'[r] = "done"]_vars

\* a request waits for a concurrency slot held by another request and is listed
C23_Witness ==
    \E a, b \in Requests :
        /\ hpc[a] = "queued" /\ a \in activeRequests
        /\ hpc[b] = "running" /\ semaphore = cfg.maxConcurrent

\* the limit_reached events of a seed crawl
LimitEvents(sl) == EventsAt(sl[1], "limit_reached", sl[2])

\* C24: a step publishes limit_reached for a seed only when the seed's processed
\* counter stands at MaxPagesPerSeed; no seed has more than one such event, none
\* while fewer pages are processed, and a finished crawl that processed
\* MaxPagesPerSeed pages has one; once it is published, the seed's visited set,
\* enqueued counter and queue get no further URL.
C24_LimitReached ==
    /\ [](\A sl \in Slots :
            /\ Cardinality(LimitEvents(sl)) <= 1
            /\ cs[sl].processed < cfg.maxPages => LimitEvents(sl) = {}
            /\ LimitEvents(sl) # {} => cs[sl].processed = cfg.maxPages
            /\ (CrawlOver(sl) /\ cs[sl].processed = cfg.maxPages) => LimitEvents(sl) # {})
    /\ [][\A sl \in Slots :
            /\ LimitEvents(sl) # {} =>
                  /\ cs'[sl].visited = cs[sl].visited
                  /\ cs'[sl].enqueued = cs[sl].enqueued
                  /\ cs'[sl].pushed = cs[sl].pushed
            /\ LimitEvents(sl)' # LimitEvents(sl) =>
                  \E w \in Workers : wk[sl][w].done = cfg.maxPages /\ wk'[sl][w].pc = "exit"]_vars

\* limit_reached is out while another worker still has links of its page to
\* offer to enqueue
C24_Witness ==
    \E sl \in Slots, w \in Workers :
        /\ LimitEvents(sl) # {}
        /\ wk[sl][w].pc = "enqueue"
        /\ wk[sl][w].links # <<>>

\* C25: when the seed-level complete event of a seed is out, every URL the seed
\* enqueued has been processed, the seed has built exactly one batch, with
\* batch_num 1 and is_complete true, and handed it to SendBatch, and the event's
\* done and total both equal the number of pages processed, which is the
\* batch's total_pages.
C25_CompleteAfterBatch ==
    \A sl \in Slots :
        \A k \in EventsAt(sl[1], "complete", sl[2]) :
            LET ev == Log(sl[1])[k]
            IN /\ cs[sl].urlQueue = <<>>
               /\ cs[sl].processed = cs[sl].enqueued
               /\ Len(cs[sl].pages) = cs[sl].processed
               /\ ev.done = cs[sl].processed
               /\ ev.total = ev.done
               /\ Cardinality(BatchesOf(sl)) = 1
               /\ \A j \in BatchesOf(sl) :
                     /\ batches[j].batch_num = 1
                     /\ batches[j].is_complete
                     /\ batches[j].total_pages = ev.done
                     /\ sends[sl].pc # "none"
                     /\ sends[sl].batch = batches[j]

\* the links offered to enqueue in every state of a running seed crawl
ProbeLinks ==
    {Rel("/a"), RelFrag("/a"), Abs("site", "/b"), Url("abs", "SITE", "/b", "f"),
     Abs("other", "/c"), Abs("SITE", "/c"), JsHref, EmptyHref, SeedBad}

\* host names equal but for the case of their letters
EqualFold(a, b) == a = b \/ {a, b} = {"site", "SITE"}

\* the link resolved against the seed URL, without its fragment; EmptyUrl when
\* there is nothing to resolve
Stripped(c, href) ==
    CASE href.kind = "abs" -> Url("abs", href.host, href.path, "")
      [] href.kind = "rel" -> Url("abs", c.mainURL.host, href.path, "")
      [] OTHER -> EmptyUrl

\* the rule: non-empty, no javascript: URL, the seed's host, room under the
\* cap, not visited yet
Accepted(c, href) ==
    /\ Stripped(c, href) # EmptyUrl
    /\ href.kind # "js"
    /\ EqualFold(Stripped(c, href).host, c.mainURL.host)
    /\ Cardinality(c.visited) < c.maxPages
    /\ Stripped(c, href) \notin c.visited

\* enqueue took the crawl state from c to d as the rule says for href
FollowsRule(c, d, href) ==
    IF Accepted(c, href)
    THEN /\ d.visited = c.visited \cup {Stripped(c, href)}
         /\ d.urlQueue = Append(c.urlQueue, Stripped(c, href))
         /\ d.pushed = Append(c.pushed, Stripped(c, href))
         /\ d.enqueued = c.enqueued + 1
    ELSE /\ d.visited = c.visited
         /\ d.urlQueue = c.urlQueue
         /\ d.pushed = c.pushed
         /\ d.enqueued = c.enqueued

\* C26: enqueue marks a link visited and pushes it exactly when the link, resolved
\* and without fragment, is non-empty, is no javascript: URL, has the seed's host
\* up to case, the visited set is below MaxPagesPerSeed and the link is not in
\* it; in every other case visited set, enqueued counter and queue stay as they
\* are; two links that differ only in the fragment are one URL. Stated for
\* every enqueue call of the workers and for every probe link offered in every
\* state of a running seed crawl.
C26_EnqueueRule ==
    /\ [](\A sl \in Slots :
            spc[sl] = "crawling" =>
               \A href \in ProbeLinks :
                  /\ FollowsRule(cs[sl], Enqueue(cs[sl], href), href)
                  /\ \A other \in ProbeLinks :
                        [other EXCEPT !.frag = ""] = [href EXCEPT !.frag = ""] =>
                            Enqueue(Enqueue(cs[sl], href), other) = Enqueue(cs[sl], href))
    /\ [][\A sl \in Slots :
            /\ \A w \in Workers :
                  (wk[sl][w].pc = "enqueue" /\ wk[sl][w].links # <<>>
                     /\ wk'[sl][w].links = Tail(wk[sl][w].links)) =>
                        FollowsRule(cs[sl], cs'[sl], Head(wk[sl][w].links))
            /\ (spc[sl] = "started" /\ spc'[sl] = "crawling") =>
                  FollowsRule(NewCrawlState(SeedOf(sl)), cs'[sl], SeedOf(sl))
            /\ cs'[sl].visited # cs[sl].visited =>
                  \/ spc[sl] = "started"
                  \/ \E w \in Workers : wk[sl][w].pc = "enqueue"]_vars

\* a worker offers a link with a fragment whose URL is visited already, with
\* room under the cap
C26_Witness ==
    \E sl \in Slots, w \in Workers :
        /\ wk[sl][w].pc = "enqueue" /\ wk[sl][w].links # <<>>
        /\ Head(wk[sl][w].links).frag # ""
        /\ Stripped(cs[sl], Head(wk[sl][w].links)) \in cs[sl].visited
        /\ Cardinality(cs[sl].visited) < cs[sl].maxPages

\* the entries of a batch for a URL
EntriesOf(b, u) == {i \in 1..Len(b.metadata) : b.metadata[i].url = u}

\* C27: every page a worker took from the seed's queue is recorded once, also
\* when its fetch failed or its content type is not text/html, and once the
\* crawl is over the seed's batch holds exactly one entry for each of them; a
\* page that failed or is not HTML makes its worker call enqueue for no link.
C27_EveryPageRecorded ==
    \A sl \in Slots :
        LET c == cs[sl]
            taken == {c.pushed[k] : k \in 1..Len(c.pushed)} \ Range(c.urlQueue)
            fetching == {wk[sl][w].u : w \in {v \in Workers : wk[sl][v].pc = "fetch"}}
        IN /\ \A u \in taken \ fetching :
                 Cardinality({k \in 1..Len(c.pages) : c.pages[k].url = u}) = 1
           /\ \A k \in 1..Len(c.pages) : c.pages[k].url \in taken
           /\ CrawlOver(sl) =>
                 /\ Cardinality(BatchesOf(sl)) = 1
                 /\ \A j \in BatchesOf(sl) : \A u \in taken :
                       Cardinality(EntriesOf(batches[j], u)) = 1
           /\ \A w \in Workers :
                 (wk[sl][w].pc = "enqueue" /\ wk[sl][w].page.status \in {"error", "other"}) =>
                     wk[sl][w].links = <<>>

\* the progress events of a seed crawl that carry done = m
ProgressAt(sl, m) ==
    {k \in EventsAt(sl[1], "progress", sl[2]) : Log(sl[1])[k].done = m}

\* the workers of a seed that counted page number m and have not reported yet
Reporting(sl, m) == {w \in Workers : wk[sl][w].pc = "report" /\ wk[sl][w].done = m}

\* C28: a seed has one progress event for every value of its processed counter
\* that is a positive multiple of ProgressEveryN, published by the worker that
\* counted that value, and none for any other value; every progress event
\* carries done <= total and percent = done / total * 100, at most 100.
C28_ProgressEvents ==
    \A sl \in Slots :
        /\ \A m \in 1..cs[sl].processed :
              IF m % ProgressEveryN = 0 /\ Reporting(sl, m) = {}
              THEN Cardinality(ProgressAt(sl, m)) = 1
              ELSE ProgressAt(sl, m) = {}
        /\ \A k \in EventsAt(sl[1], "progress", sl[2]) :
              LET ev == Log(sl[1])[k]
              IN /\ ev.done \in 1..cs[sl].processed
                 /\ ev.done <= ev.total
                 /\ ev.percent.den > 0
                 /\ ev.percent.num * ev.total = ev.done * 100 * ev.percent.den
                 /\ ev.percent.num <= 100 * ev.percent.den

\* a progress event with done below total: 2 of 3 pages
C28_Witness ==
    \E sl \in Slots : \E k \in EventsAt(sl[1], "progress", sl[2]) :
        /\ Log(sl[1])[k].done = 2
        /\ Log(sl[1])[k].total = 3

\* the records in the store, by the user call they descend from
StoredOrigins(q) == {q.list[k].origin : k \in 1..Len(q.list)}

\* SendBatch has returned nil to RetryFailedBatches, which now goes on
RedeliverySucceeded ==
    /\ dw.pc = "sending" /\ dw'.pc = "loop"
    /\ sends[DlqSender].pc = "returned"
    /\ sends[DlqSender].result = NilErr

\* C29: when the redelivery of a record succeeds the record is not in the store
\* and nothing is put into the store; afterwards the record is never in the
\* store again and never passed to SendBatch again.
C29_DeliveredOnce ==
    /\ [](/\ StoredOrigins(dlq) \cap dlq.delivered = {}
          /\ dw.cur # NoElement => dw.cur.origin \notin dlq.delivered
          /\ dlq.delivered \cap dlq.dropped = {})
    /\ [][RedeliverySucceeded =>
            /\ dlq'.list = dlq.list
            /\ dw.cur.origin \notin StoredOrigins(dlq')
            /\ dw.cur.origin \in dlq'.delivered
            /\ dw'.cur = NoElement]_vars

\* one record was redelivered, and another, which failed before, is being
\* redelivered
C29_Witness ==
    /\ dlq.delivered # {}
    /\ dw.pc = "sending"
    /\ Unmarshal(dw.cur.data).retry_count >= 1

\* C30: the batch that RetryFailedBatches passes to SendBatch is, field for
\* field, the batch whose delivery failed: request_id, batch_id, main_url,
\* batch_num, is_complete, total_pages, archive payload, compression, metadata
\* and stats.
C30_WholeBatchCarried ==
    sends[DlqSender].pc # "none" =>
        LET sent == sends[DlqSender].batch
            was == FailedDelivery(RequestOf(dw.cur.orig.request_id))
        IN /\ sent.request_id = was.request_id
           /\ sent.batch_id = was.batch_id
           /\ sent.main_url = was.main_url
           /\ sent.batch_num = was.batch_num
           /\ sent.is_complete = was.is_complete
           /\ sent.total_pages = was.total_pages
           /\ sent.archive = was.archive
           /\ sent.compression = was.compression
           /\ sent.metadata = was.metadata
           /\ sent.stats = was.stats

(***************************************************************************)
(* Properties of the seed crawl with enqueue taken statement by statement  *)
(***************************************************************************)
\* the workers started for the seed crawl
Started(sl) == {w \in Workers : wk[sl][w].pc # "none"}

\* worker w is inside enqueue and cannot take a step: it waits for st.mu, or it
\* holds st.mu and waits for a free slot of urlQueue
BlockedInEnqueue(sl, w) ==
    \/ wk[sl][w].pc = "send" /\ Len(cs[sl].urlQueue) >= QueueCap
    \/ /\ wk[sl][w].pc = "enqueue"
       /\ wk[sl][w].links # <<>>
       /\ Navigable(cs[sl], NormalizeURL(cs[sl].mainURL, Head(wk[sl][w].links)))
       /\ cs[sl].mu \notin {0, w}

\* C31: a valid seed crawl never deadlocks, for every link graph, page cap and
\* worker count, page caps above the capacity of urlQueue plus the worker count
\* included: in no reachable state is every worker of the crawl blocked inside
\* enqueue, one of them holding st.mu while its send waits on the full queue
\* (and so the seed-level complete event is eventually published).
C31_NoEnqueueDeadlock ==
    \A sl \in Slots :
        spc[sl] = "crawling" /\ Started(sl) # {}
        => \E w \in Started(sl) : ~BlockedInEnqueue(sl, w)

(***************************************************************************)
(* Properties of a RetryFailedBatches pass                                 *)
(***************************************************************************)
\* the number of times the record of user call o was passed to SendBatch in
\* the last pass
TriedInPass(o) == Cardinality({k \in 1..Len(dw.tried) : dw.tried[k] = o})

\* C32: within one RetryFailedBatches pass each record that was in the queue
\* when the pass began is passed to SendBatch at most once; a record enqueued
\* again after a failed redelivery waits for a later pass.
C32_OncePerPass ==
    \A b \in dw.began : TriedInPass(b.origin) <= 1

\* no caller has enqueued a record since the pass began
NoConcurrentEnqueue == dlq.fresh = dw.fresh

\* C33: with a working store and no concurrent Enqueue every RetryFailedBatches
\* call returns, and it returns with the queue empty; a record that was stored
\* with retry_count n in 0..4 when the call began is passed to SendBatch at
\* most 5 - n times, once for every value its retry_count goes through,
\* whatever the analyzer answers.
C33_PassTerminates ==
    /\ [](dlq.client =>
            \A b \in dw.began :
               b.retry_count \in 0..4 =>
                  /\ TriedInPass(b.origin) <= 5 - b.retry_count
                  /\ \A k \in 1..Len(dlq.list) :
                        dlq.list[k].origin = b.origin =>
                           TriedInPass(b.origin) =
                              Unmarshal(dlq.list[k].data).retry_count - b.retry_count)
    /\ [](dlq.client /\ dw.ended /\ NoConcurrentEnqueue => dlq.list = <<>>)
    /\ (dlq.client /\ dw.pc # "idle") ~> (dw.pc = "idle" /\ dw.ended)

\* a pass has returned with the queue empty after five redeliveries of a record
\* stored when it began, no record having been enqueued meanwhile
C33_Witness ==
    /\ dlq.client /\ dw.ended /\ dw.pc = "idle" /\ NoConcurrentEnqueue
    /\ \E b \in dw.began : b.retry_count = 0 /\ TriedInPass(b.origin) = 5
    /\ dlq.list = <<>>

(***************************************************************************)
(* Properties of the event hub for every request id and every call order   *)
(***************************************************************************)
\* the copies that subscriber s holds or has read of the n-th event of publisher p
CopiesOf(s, p, n) ==
    {k \in 1..Len(Stream(s)) : Stream(s)[k].seed = p /\ Stream(s)[k].done = n}

\* C34: of every Publish(ev) call each registered subscriber's channel receives
\* at most one copy of ev, whatever ev.request_id is, the empty string included.
C34_OneCopyPerPublish ==
    \A s \in SubIds, p \in PubIds, n \in 1..MaxPublish :
        Cardinality(CopiesOf(s, p, n)) <= 1

\* C35: a second Unsubscribe call with the same request id and handle is a
\* no-op: the closed channel of the handle is never closed again, also when
\* other subscribers are still registered under that request id.
C35_UnsubscribeTwice ==
    \A s \in SubIds : subs[s].state # "closed twice"

(***************************************************************************)
(* Properties of the counters of a seed crawl                              *)
(***************************************************************************)
\* C36: in the order in which they are published, the done values of the
\* progress events of one seed are strictly increasing, under every
\* interleaving of the seed's workers.
C36_ProgressIncreasing ==
    \A sl \in Slots :
        \A j, k \in EventsAt(sl[1], "progress", sl[2]) :
            j < k => Log(sl[1])[j].done < Log(sl[1])[k].done

\* C37: in every reachable state of a seed crawl processed <= number of pages
\* in the batch buffer <= enqueued <= MaxPagesPerSeed, enqueued is the size of
\* the visited set whenever st.mu is free, and processed never decreases.
C37_CounterOrder ==
    /\ [](\A sl \in Slots :
            spc[sl] \in {"crawling", "sent", "done"} /\ cs[sl] # NoCrawl =>
               /\ cs[sl].processed <= Len(cs[sl].pages)
               /\ Len(cs[sl].pages) <= cs[sl].enqueued
               /\ cs[sl].enqueued <= cfg.maxPages
               /\ cs[sl].mu = 0 => cs[sl].enqueued = Cardinality(cs[sl].visited))
    /\ [][\A sl \in Slots : cs'[sl].processed >= cs[sl].processed]_vars

\* two workers: one holds st.mu between the insertion into the visited set and
\* the increment of enqueued, the other has added a page it has not counted yet
C37_Witness ==
    \E sl \in Slots :
        /\ cs[sl].mu # 0
        /\ cs[sl].enqueued < Cardinality(cs[sl].visited)
        /\ 1 <= cs[sl].processed
        /\ cs[sl].processed < Len(cs[sl].pages)
        /\ Len(cs[sl].pages) = cs[sl].enqueued

(***************************************************************************)
(* Properties of the request semaphore                                     *)
(***************************************************************************)
\* the requests inside StartCrawl, and those holding a slot of the semaphore
InStartCrawl == {r \in Requests : hpc[r] = "running"}
HoldingSlot == {r \in Requests : hpc[r] \in {"running", "completed"}}

\* C38: at no time do more than maxConcurrent requests execute StartCrawl: an
\* accepted request takes one slot of the semaphore before StartCrawl and gives
\* it back after StartCrawl has returned, and, running crawls terminating,
\* every waiting request eventually gets a slot.
C38_ConcurrencyCap ==
    /\ [](/\ Cardinality(InStartCrawl) <= cfg.maxConcurrent
          /\ semaphore = Cardinality(HoldingSlot)
          /\ semaphore <= cfg.maxConcurrent
          /\ \A sl \in Slots : spc[sl] \notin {"none", "done"} => sl[1] \in InStartCrawl)
    /\ [][\A r \in Requests :
            /\ (r \notin HoldingSlot /\ r \in HoldingSlot') =>
                  hpc[r] = "queued" /\ semaphore' = semaphore + 1
            /\ (r \in HoldingSlot /\ r \notin HoldingSlot') =>
                  hpc[r] = "completed" /\ semaphore' = semaphore - 1]_vars
    /\ \A r \in Requests : (hpc[r] = "queued") ~> (hpc[r] = "running")

\* the cap is one: a request waits for the slot that another request holds
\* while its seeds are crawled
C38_Witness ==
    \E r, q \in Requests :
        /\ cfg.maxConcurrent = 1 /\ semaphore = 1
        /\ hpc[r] = "queued" /\ hpc[q] = "running"
        /\ \E sl \in SlotsOf(q) : spc[sl] = "crawling"

(***************************************************************************)
(* Properties of the batches sent while the crawl runs                     *)
(***************************************************************************)
\* the positions in batches of the batches of a seed
BatchesOfSeed(sl) ==
    {i \in 1..Len(batches) :
        batches[i].request_id = RequestID(sl[1]) /\ batches[i].seed = sl[2]}

\* C39: when the crawl of a valid seed has returned, exactly one of its batches
\* has is_complete = true, and no batch of the seed has a higher batch_num,
\* whatever the number of fetched pages, the multiples of the batch size included.
C39_OneCompleteBatch ==
    \A sl \in Slots :
        (spc[sl] = "done" /\ ~InvalidSeed(SeedOf(sl))) =>
            /\ Cardinality({i \in BatchesOfSeed(sl) : batches[i].is_complete}) = 1
            /\ \A i, j \in BatchesOfSeed(sl) :
                   batches[i].is_complete => batches[j].batch_num <= batches[i].batch_num

(***************************************************************************)
(* Properties of the task worker                                           *)
(***************************************************************************)
\* the processCrawlTask goroutines that crawl, or have crawled, task t
CrawlsOf(t) == {g \in TaskRuns : g[1] = t /\ tw.run[g].pc \in {"crawl", "done"}}

\* the steps of the status of a stored task
StatusSteps ==
    {<<"", "queued">>, <<"queued", "processing">>, <<"processing", "completed">>}

\* C40: every queued task is crawled by at most one processCrawlTask goroutine,
\* and the status of the stored task only moves from queued to processing and
\* from processing to completed, however the goroutines that queueWorker starts
\* for the task on successive scans are interleaved.
C40_SingleCrawl ==
    /\ [](\A t \in Tasks : Cardinality(CrawlsOf(t)) <= 1)
    /\ [][\A t \in Tasks :
            store'.tasks[t].status # store.tasks[t].status =>
                <<store.tasks[t].status, store'.tasks[t].status>> \in StatusSteps]_vars

====
